---- MODULE Spec2Model ----
(***************************************************************************)
(* Auto-reply engine of the WhatsApp Web API: the per-sender cooldown      *)
(* tracker, the keyword rule table and the three builds of the message     *)
(* handler (keyword-only, AI-layered, menu-driven).                        *)
(*                                                                         *)
(* The texts the handlers compute on (message bodies, chat ids, keywords)  *)
(* are held in the state as strings and computed on as sequences of        *)
(* one-character strings (Chars), so that trim, toLowerCase, includes,     *)
(* startsWith and replace are computed, not assumed.                       *)
(* A reply text is a value [type, val]; val names the text (equal names =  *)
(* equal texts) and "" is the empty string.                                *)
(***************************************************************************)
EXTENDS Integers, Sequences, FiniteSets, TLC

\* ------------------------------------------------------------------ bounds

\* The clock advances in steps of ClockStep milliseconds, MaxTicks times.
ClockStep == 500
MaxTicks == 3
\* AUTO_REPLY_COOLDOWN of the environment, in seconds.
EnvCooldown == 1
\* Message handlings in flight at once.
MaxInFlight == 2
\* cooldownMap.size above which setCooldown sweeps. The code's threshold is
\* 1000; the model keeps the comparison and scales the number so that a sweep
\* happens with the senders it has.
SweepThreshold == 1

\* --------------------------------------------------------- program constants

MsPerSecond == 1000
DefaultCooldown == 5

\* ------------------------------------------------------------ JavaScript values

\* A reply value is [type, val]: a string (val its text), null or undefined.
Str(s) == [type |-> "string", val |-> s]
Null == [type |-> "null", val |-> ""]
Undefined == [type |-> "undefined", val |-> ""]
\* ToBoolean of a reply value
Truthy(v) == v.type = "string" /\ v.val # ""

\* A field of a request body is [type, val, num, bool]: the typeof tag and the
\* string, number or boolean it holds.
Field(type, val, num, bool) == [type |-> type, val |-> val, num |-> num, bool |-> bool]
StrField(s) == Field("string", s, 0, FALSE)
NumField(n) == Field("number", "", n, FALSE)
BoolField(b) == Field("boolean", "", 0, b)
Absent == Field("undefined", "", 0, FALSE)

\* ------------------------------------------------------------------- texts

UpperChars == <<"A","B","C","D","E","F","G","H","I","J","K","L","M",
                "N","O","P","Q","R","S","T","U","V","W","X","Y","Z">>
LowerChars == <<"a","b","c","d","e","f","g","h","i","j","k","l","m",
                "n","o","p","q","r","s","t","u","v","w","x","y","z">>
WhiteSpace == {" ", "\t", "\n"}

LowerOf ==
    [c \in {UpperChars[i] : i \in 1..Len(UpperChars)} |->
        LowerChars[CHOOSE i \in 1..Len(UpperChars) : UpperChars[i] = c]]

LowerChar(c) == IF c \in DOMAIN LowerOf THEN LowerOf[c] ELSE c

\* String.prototype.toLowerCase
ToLowerCase(s) == [i \in 1..Len(s) |-> LowerChar(s[i])]

RECURSIVE TrimStart(_)
TrimStart(s) ==
    IF s # <<>> /\ Head(s) \in WhiteSpace THEN TrimStart(Tail(s)) ELSE s

RECURSIVE TrimEnd(_)
TrimEnd(s) ==
    IF s # <<>> /\ s[Len(s)] \in WhiteSpace
    THEN TrimEnd(SubSeq(s, 1, Len(s) - 1))
    ELSE s

\* String.prototype.trim
Trim(s) == TrimEnd(TrimStart(s))

\* String.prototype.startsWith
StartsWith(s, p) == Len(p) <= Len(s) /\ SubSeq(s, 1, Len(p)) = p

\* String.prototype.includes
Includes(s, p) ==
    \E i \in 0..(Len(s) - Len(p)) : SubSeq(s, i + 1, i + Len(p)) = p

\* Array.prototype.some(k => text.includes(k)) over a set of patterns
IncludesAny(s, ps) == \E p \in ps : Includes(s, p)

\* ------------------------------------------------------------ program data

\* config.autoReply.keywords, in the order of the object literal. The value
\* names the reply text; rules with the same text have the same name.
ConfigKeywords ==
    << [key |-> "hi", value |-> Str("welcome")],
       [key |-> "hello", value |-> Str("welcome")],
       [key |-> "hey", value |-> Str("hello-assist")],
       [key |-> "book", value |-> Str("how-to-book")],
       [key |-> "booking", value |-> Str("how-to-book")],
       [key |-> "ticket", value |-> Str("book-online")],
       [key |-> "price", value |-> Str("pricing")],
       [key |-> "rate", value |-> Str("pricing")],
       [key |-> "route", value |-> Str("routes")],
       [key |-> "package", value |-> Str("packages-with-link")],
       [key |-> "packages", value |-> Str("packages-with-link")],
       [key |-> "tour", value |-> Str("packages")],
       [key |-> "rental", value |-> Str("rentals")],
       [key |-> "bus", value |-> Str("bus-service")],
       [key |-> "contact", value |-> Str("contact-card")],
       [key |-> "address", value |-> Str("address-card")],
       [key |-> "help", value |-> Str("help-menu")],
       [key |-> "thanks", value |-> Str("thank-you")],
       [key |-> "thank you", value |-> Str("thank-you")],
       [key |-> "ok", value |-> Null],
       [key |-> "okay", value |-> Null],
       [key |-> "yes", value |-> Null],
       [key |-> "no", value |-> Null] >>

BookingTriggers ==
    { <<"b","o","o","k","i","n","g">>,
      <<"t","i","c","k","e","t">>,
      <<"r","e","s","e","r","v","a","t","i","o","n">>,
      <<"b","o","o","k","e","d">>,
      <<"m","y"," ","s","e","a","t">> }

AvailabilityTriggers ==
    { <<"s","e","a","t">>,
      <<"a","v","a","i","l","a","b","l","e">>,
      <<"a","v","a","i","l","a","b","i","l","i","t","y">>,
      <<"h","o","w"," ","m","a","n","y">>,
      <<"l","e","f","t">> }

ScheduleTriggers ==
    { <<"s","c","h","e","d","u","l","e">>,
      <<"t","i","m","i","n","g">>,
      <<"t","i","m","e">>,
      <<"w","h","e","n">>,
      <<"d","e","p","a","r","t","u","r","e">>,
      <<"a","r","r","i","v","e">> }

SkipWords ==
    { <<"o","k">>,
      <<"o","k","a","y">>,
      <<"y","e","s">>,
      <<"n","o">>,
      <<"h","m","m">>,
      <<"k">>,
      <<"f","i","n","e">>,
      <<"g","o","o","d">>,
      <<"n","i","c","e">>,
      <<"g","r","e","a","t">>,
      <<"t","h","a","n","k","s">>,
      <<"t","h","a","n","k"," ","y","o","u">>,
      <<"t","h","a","n","k","y","o","u">>,
      <<"t","q">>,
      <<"t","y">> }

\* The skipWords of testReply
TestSkipWords ==
    { <<"o","k">>,
      <<"o","k","a","y">>,
      <<"y","e","s">>,
      <<"n","o">>,
      <<"h","m","m">>,
      <<"k">>,
      <<"f","i","n","e">>,
      <<"g","o","o","d">>,
      <<"n","i","c","e">>,
      <<"g","r","e","a","t">> }

MenuOptions ==
    { <<"1">>,
      <<"2">>,
      <<"3">>,
      <<"4">>,
      <<"5">> }

Greetings ==
    { <<"h","i">>,
      <<"h","e","l","l","o">>,
      <<"h","e","y">>,
      <<"h","i","i">>,
      <<"h","i","i","i">>,
      <<"n","a","m","a","s","t","e">>,
      <<"n","a","m","a","s","k","a","r">>,
      <<"n","a","m","a","s","k","a","r","a">>,
      <<"U+0CA8","U+0CAE","U+0CB8","U+0CCD","U+0C95","U+0CBE","U+0CB0">> }

BookingQueryWords ==
    { <<"b","o","o","k","i","n","g">>,
      <<"b","o","o","k","e","d">>,
      <<"m","y"," ","b","o","o","k","i","n","g">>,
      <<"m","y"," ","t","i","c","k","e","t">>,
      <<"r","e","s","e","r","v","a","t","i","o","n">>,
      <<"t","i","c","k","e","t"," ","s","t","a","t","u","s">>,
      <<"b","o","o","k","i","n","g"," ","s","t","a","t","u","s">>,
      <<"c","h","e","c","k"," ","b","o","o","k","i","n","g">>,
      <<"m","y"," ","s","e","a","t">> }

AvailabilityQueryWords ==
    { <<"a","v","a","i","l","a","b","l","e">>,
      <<"a","v","a","i","l","a","b","i","l","i","t","y">>,
      <<"s","e","a","t","s"," ","a","v","a","i","l","a","b","l","e">>,
      <<"h","o","w"," ","m","a","n","y"," ","s","e","a","t","s">>,
      <<"s","e","a","t","s"," ","l","e","f","t">>,
      <<"i","s"," ","t","h","e","r","e"," ","s","e","a","t">>,
      <<"a","n","y"," ","s","e","a","t">> }

ScheduleQueryWords ==
    { <<"s","c","h","e","d","u","l","e">>,
      <<"t","i","m","i","n","g">>,
      <<"t","i","m","i","n","g","s">>,
      <<"t","i","m","e">>,
      <<"d","e","p","a","r","t","u","r","e">>,
      <<"a","r","r","i","v","e">>,
      <<"w","h","e","n"," ","d","o","e","s">>,
      <<"w","h","a","t"," ","t","i","m","e">>,
      <<"b","u","s"," ","t","i","m","e">> }

NewBookingQueryWords ==
    { <<"b","o","o","k">>,
      <<"n","e","w"," ","b","o","o","k","i","n","g">>,
      <<"b","o","o","k"," ","t","i","c","k","e","t">>,
      <<"b","o","o","k"," ","s","e","a","t">>,
      <<"w","a","n","t"," ","t","o"," ","b","o","o","k">>,
      <<"n","e","e","d"," ","t","i","c","k","e","t">>,
      <<"b","o","o","k"," ","b","u","s">> }

ContactQueryWords ==
    { <<"c","o","n","t","a","c","t">>,
      <<"c","a","l","l">>,
      <<"p","h","o","n","e">>,
      <<"n","u","m","b","e","r">>,
      <<"h","e","l","p">>,
      <<"s","u","p","p","o","r","t">>,
      <<"a","d","d","r","e","s","s">>,
      <<"o","f","f","i","c","e">> }

AtCUs == <<"@","c",".","u","s">>

AtSWhatsappNet == <<"@","s",".","w","h","a","t","s","a","p","p",".","n","e","t">>

AtGUs == <<"@","g",".","u","s">>

Thank == <<"t","h","a","n","k">>

\* ---------------------------------------------------------------- vocabulary

\* The texts that occur in a state, as strings
Vocabulary ==
    { "hi",
      "hello",
      "hey",
      "book",
      "booking",
      "ticket",
      "price",
      "rate",
      "route",
      "package",
      "packages",
      "tour",
      "rental",
      "bus",
      "contact",
      "address",
      "help",
      "thanks",
      "thank you",
      "ok",
      "okay",
      "yes",
      "no",
      "Hi",
      "1@c.us",
      "2@c.us",
      "7@g.us",
      "1",
      "2",
      " Hello",
      " OK ",
      "No thanks",
      "xyz",
      "Ticket",
      "No ticket",
      "Xyz",
      "bookkeeper",
      "Book now",
      "book,now",
      "2 pm please",
      "2 pm",
      "2 PM",
      "Book",
      "__proto__",
      "0",
      "secret",
      "nope",
      "Bearer secret",
      "Bearer nope",
      "",
      "seats available tomorrow",
      "timing call",
      "book help",
      "tq",
      "3",
      "4",
      "5",
      " 1 ",
      " ok ",
      "OK",
      "my seat timing",
      "seat time" }

\* The characters of a text of the vocabulary
CharsOf ==
    [w \in Vocabulary |->
        CASE w = "hi" -> <<"h","i">>
          [] w = "hello" -> <<"h","e","l","l","o">>
          [] w = "hey" -> <<"h","e","y">>
          [] w = "book" -> <<"b","o","o","k">>
          [] w = "booking" -> <<"b","o","o","k","i","n","g">>
          [] w = "ticket" -> <<"t","i","c","k","e","t">>
          [] w = "price" -> <<"p","r","i","c","e">>
          [] w = "rate" -> <<"r","a","t","e">>
          [] w = "route" -> <<"r","o","u","t","e">>
          [] w = "package" -> <<"p","a","c","k","a","g","e">>
          [] w = "packages" -> <<"p","a","c","k","a","g","e","s">>
          [] w = "tour" -> <<"t","o","u","r">>
          [] w = "rental" -> <<"r","e","n","t","a","l">>
          [] w = "bus" -> <<"b","u","s">>
          [] w = "contact" -> <<"c","o","n","t","a","c","t">>
          [] w = "address" -> <<"a","d","d","r","e","s","s">>
          [] w = "help" -> <<"h","e","l","p">>
          [] w = "thanks" -> <<"t","h","a","n","k","s">>
          [] w = "thank you" -> <<"t","h","a","n","k"," ","y","o","u">>
          [] w = "ok" -> <<"o","k">>
          [] w = "okay" -> <<"o","k","a","y">>
          [] w = "yes" -> <<"y","e","s">>
          [] w = "no" -> <<"n","o">>
          [] w = "Hi" -> <<"H","i">>
          [] w = "1@c.us" -> <<"1","@","c",".","u","s">>
          [] w = "2@c.us" -> <<"2","@","c",".","u","s">>
          [] w = "7@g.us" -> <<"7","@","g",".","u","s">>
          [] w = "1" -> <<"1">>
          [] w = "2" -> <<"2">>
          [] w = " Hello" -> <<" ","H","e","l","l","o">>
          [] w = " OK " -> <<" ","O","K"," ">>
          [] w = "No thanks" -> <<"N","o"," ","t","h","a","n","k","s">>
          [] w = "xyz" -> <<"x","y","z">>
          [] w = "Ticket" -> <<"T","i","c","k","e","t">>
          [] w = "No ticket" -> <<"N","o"," ","t","i","c","k","e","t">>
          [] w = "Xyz" -> <<"X","y","z">>
          [] w = "bookkeeper" -> <<"b","o","o","k","k","e","e","p","e","r">>
          [] w = "Book now" -> <<"B","o","o","k"," ","n","o","w">>
          [] w = "book,now" -> <<"b","o","o","k",",","n","o","w">>
          [] w = "2 pm please" -> <<"2"," ","p","m"," ","p","l","e","a","s","e">>
          [] w = "2 pm" -> <<"2"," ","p","m">>
          [] w = "2 PM" -> <<"2"," ","P","M">>
          [] w = "Book" -> <<"B","o","o","k">>
          [] w = "__proto__" -> <<"_","_","p","r","o","t","o","_","_">>
          [] w = "0" -> <<"0">>
          [] w = "secret" -> <<"s","e","c","r","e","t">>
          [] w = "nope" -> <<"n","o","p","e">>
          [] w = "Bearer secret" -> <<"B","e","a","r","e","r"," ","s","e","c","r","e","t">>
          [] w = "Bearer nope" -> <<"B","e","a","r","e","r"," ","n","o","p","e">>
          [] w = "" -> <<>>
          [] w = "seats available tomorrow" -> <<"s","e","a","t","s"," ","a","v","a","i","l","a","b","l","e"," ","t","o","m","o","r","r","o","w">>
          [] w = "timing call" -> <<"t","i","m","i","n","g"," ","c","a","l","l">>
          [] w = "book help" -> <<"b","o","o","k"," ","h","e","l","p">>
          [] w = "tq" -> <<"t","q">>
          [] w = "3" -> <<"3">>
          [] w = "4" -> <<"4">>
          [] w = "5" -> <<"5">>
          [] w = " 1 " -> <<" ","1"," ">>
          [] w = " ok " -> <<" ","o","k"," ">>
          [] w = "OK" -> <<"O","K">>
          [] w = "my seat timing" -> <<"m","y"," ","s","e","a","t"," ","t","i","m","i","n","g">>
          [] w = "seat time" -> <<"s","e","a","t"," ","t","i","m","e">>]

Chars(w) == CharsOf[w]

\* The text of the vocabulary with these characters
Text(cs) == CHOOSE w \in Vocabulary : Chars(w) = cs

\* ------------------------------------------------------------ end vocabulary

\* config.autoReply.defaultMessage
ConfigDefaultMessage == Str("default-welcome")

\* --------------------------------------------------------------------- state

VARIABLES
    build,            \* which handlers module is loaded: "keyword", "ai", "menu"
    now,              \* Date.now(), milliseconds
    cooldownMap,      \* sender -> timestamp of the last auto-reply
    autoReplyConfig,  \* the runtime configuration
    aiAvailable,      \* aiService.isEnabled()
    tasks,            \* the message handlings in flight
    lastReplied,      \* history: sender -> the last successful auto-reply
    snapshot,         \* the object a caller holds from getAutoReplyConfig
    probe,            \* the call of testReply in progress, or its result
    http              \* config.apiKey and the last HTTP request with its response

vars == <<build, now, cooldownMap, autoReplyConfig, aiAvailable, tasks, lastReplied,
          snapshot, probe, http>>

Slots == 1..MaxInFlight

\* A handling not yet started. Its history is recorded with it: the n* fields
\* count the calls the handling has made; gate is the return it took at the
\* filters ("filtered", "disabled", "cooldown") or "passed"; decidedBy is the
\* stage that chose the reply; lookups are the gateway lookups that resolved;
\* the *AtStart fields say what held when the handler was called; resolution
\* and defaultThen are what the rule table resolved the text to, and the
\* default message, when the reply was decided; overlapped says a reply to
\* the sender was delivered while this handling was in flight, inWindowAtSend
\* that its own reply was delivered within the window of an earlier one.
IdleTask ==
    [ pc |-> "idle", from |-> "", fromMe |-> FALSE, body |-> "",
      replyMessage |-> Null, senderName |-> Null, liveData |-> {},
      gate |-> "none", decidedBy |-> "none", sendResult |-> "none",
      nGateway |-> 0, nContact |-> 0, nAi |-> 0, nSend |-> 0,
      nCooldownRead |-> 0, nCooldownWrite |-> 0,
      enabledAtStart |-> FALSE, inWindowAtStart |-> FALSE,
      exactSuppressAtStart |-> FALSE, resolution |-> Undefined,
      defaultThen |-> Undefined, overlapped |-> FALSE,
      inWindowAtSend |-> FALSE, lookups |-> <<>>,
      caught |-> FALSE, afterCaught |-> FALSE ]

NewTask(msg) ==
    [IdleTask EXCEPT !.pc = "start", !.from = msg.from, !.fromMe = msg.fromMe,
                     !.body = msg.body]

Finished(t) == [t EXCEPT !.pc = "done"]

\* The handler returned at one of its filters
Skipped(t, gate) == Finished([t EXCEPT !.gate = gate])

\* Variant of Caught in which the listener has no catch: the rejection is
\* unhandled and the process ends
Uncaught(t) == [t EXCEPT !.pc = "crashed"]

\* An exception left handleIncomingMessage: the catch of the listener logs it
\* and the listener returns
Caught(t) == Finished([t EXCEPT !.caught = TRUE])

\* isOnCooldown was called
CooldownRead(t) == [t EXCEPT !.nCooldownRead = @ + 1]

\* The handling went past the cooldown check
Passed(t) == [CooldownRead(t) EXCEPT !.gate = "passed"]

\* ----------------------------------------------------------------- phone utils

\* String.prototype.replace(p, ''): the first occurrence of p removed
RemoveFirst(s, p) ==
    IF Includes(s, p)
    THEN LET i == CHOOSE i \in 0..(Len(s) - Len(p)) :
                      /\ SubSeq(s, i + 1, i + Len(p)) = p
                      /\ \A j \in 0..(i - 1) : SubSeq(s, j + 1, j + Len(p)) # p
         IN SubSeq(s, 1, i) \o SubSeq(s, i + Len(p) + 1, Len(s))
    ELSE s

FromWhatsAppId(chatId) == RemoveFirst(RemoveFirst(chatId, AtCUs), AtSWhatsappNet)

\* const sender = fromWhatsAppId(message.from)
SenderOf(from) == Text(FromWhatsAppId(Chars(from)))
Sender(t) == SenderOf(t.from)

\* Variant of FromGroup that takes no chat for a group
NotGroup(t) == FALSE

\* message.from.includes('@g.us')
FromGroup(t) == Includes(Chars(t.from), AtGUs)

\* -------------------------------------------------------------- cooldown tracker

\* Variant of CooldownGet for a table that never holds an entry
NoEntry(sender) == 0

\* Map.prototype.get: the timestamp, or 0 standing for undefined (both falsy)
CooldownGet(sender) ==
    IF sender \in DOMAIN cooldownMap THEN cooldownMap[sender] ELSE 0

\* Variant of IsOnCooldown whose window includes its end
IsOnCooldownInclusive(sender) ==
    /\ CooldownGet(sender) # 0
    /\ (now - CooldownGet(sender)) <= autoReplyConfig.cooldown * MsPerSecond

\* Variant of IsOnCooldown that lets every sender through
NeverOnCooldown(sender) == FALSE

\* elapsed = (Date.now() - lastReply) / 1000; elapsed < cooldown, written
\* without the division
IsOnCooldown(sender) ==
    LET lastReply == CooldownGet(sender)
    IN IF lastReply = 0 THEN FALSE
       ELSE (now - lastReply) < autoReplyConfig.cooldown * MsPerSecond

\* Variant of Swept whose cutoff takes the entry at the end of the window too
SweptInclusive(map) ==
    LET cutoff == now - autoReplyConfig.cooldown * MsPerSecond
        kept == {k \in DOMAIN map : ~(map[k] <= cutoff)}
    IN [k \in kept |-> map[k]]

\* Variant of Swept whose cutoff is the clock, without the window
SweptStale(map) ==
    LET kept == {k \in DOMAIN map : ~(map[k] < now)}
    IN [k \in kept |-> map[k]]

\* The entries the sweep of setCooldown keeps
Swept(map) ==
    LET cutoff == now - autoReplyConfig.cooldown * MsPerSecond
        kept == {k \in DOMAIN map : ~(map[k] < cutoff)}
    IN [k \in kept |-> map[k]]

\* Variant of SetCooldown that writes nothing
KeptCooldown(sender) == cooldownMap

\* The map after setCooldown(sender)
SetCooldown(sender) ==
    LET set == [k \in (DOMAIN cooldownMap) \cup {sender} |->
                   IF k = sender THEN now ELSE cooldownMap[k]]
    IN IF Cardinality(DOMAIN set) > SweepThreshold THEN Swept(set) ELSE set

\* ------------------------------------------------------------ keyword rule table

\* Variant of HasOwnProperty that finds no key
NoOwnProperty(keywords, text) == FALSE

\* keywords.hasOwnProperty(text), text given by its characters
HasOwnProperty(keywords, text) ==
    \E i \in 1..Len(keywords) : Chars(keywords[i].key) = text

\* keywords.hasOwnProperty is inherited from Object.prototype: the call throws
\* a TypeError when the rule table has lost its prototype
NotAFunction(cfg) == cfg.keywordsProto = "null"

\* keywords[text]
GetProperty(keywords, text) ==
    IF HasOwnProperty(keywords, text)
    THEN keywords[CHOOSE i \in 1..Len(keywords) : Chars(keywords[i].key) = text].value
    ELSE Undefined

\* Variant of PrefixMatches that takes the key wherever it starts the text
BareStartsWith(messageText, keyword) == StartsWith(messageText, keyword)

\* messageText.startsWith(keyword + ' ') || messageText.startsWith(keyword + ',')
PrefixMatches(messageText, keyword) ==
    \/ StartsWith(messageText, keyword \o <<" ">>)
    \/ StartsWith(messageText, keyword \o <<",">>)

\* A key that is an array index: a canonical numeric string, which
\* Object.entries lists before the other keys. The keys of the model have
\* fewer than ten digits, below the limit 2^32 - 2 of an array index.
DigitValue ==
    [d \in {"0", "1", "2", "3", "4", "5", "6", "7", "8", "9"} |->
        CASE d = "0" -> 0 [] d = "1" -> 1 [] d = "2" -> 2 [] d = "3" -> 3
          [] d = "4" -> 4 [] d = "5" -> 5 [] d = "6" -> 6 [] d = "7" -> 7
          [] d = "8" -> 8 [] d = "9" -> 9]

IsArrayIndex(key) ==
    /\ Len(key) \in 1..9
    /\ \A i \in 1..Len(key) : key[i] \in DOMAIN DigitValue
    /\ Len(key) > 1 => key[1] # "0"

RECURSIVE IndexValue(_)
IndexValue(key) ==
    IF key = <<>> THEN 0
    ELSE 10 * IndexValue(SubSeq(key, 1, Len(key) - 1)) + DigitValue[key[Len(key)]]

RECURSIVE Ascending(_)
Ascending(rules) ==
    IF rules = <<>> THEN <<>>
    ELSE LET least == CHOOSE i \in 1..Len(rules) :
                 \A j \in 1..Len(rules) :
                     IndexValue(Chars(rules[i].key)) <= IndexValue(Chars(rules[j].key))
         IN <<rules[least]>> \o
            Ascending([k \in 1..(Len(rules) - 1) |->
                          IF k < least THEN rules[k] ELSE rules[k + 1]])

\* Object.entries(keywords): the array-index keys in ascending numeric order,
\* then the other keys in the order of their insertion
Entries(keywords) ==
    IF \A i \in 1..Len(keywords) : ~IsArrayIndex(Chars(keywords[i].key))
    THEN keywords
    ELSE Ascending(SelectSeq(keywords, LAMBDA rule : IsArrayIndex(Chars(rule.key))))
         \o SelectSeq(keywords, LAMBDA rule : ~IsArrayIndex(Chars(rule.key)))

\* The loop over the entries: the reply of the first whose key, followed by
\* a space or a comma, starts the text
FirstPrefixReply(entries, messageText) ==
    IF \E i \in 1..Len(entries) : PrefixMatches(messageText, Chars(entries[i].key))
    THEN entries[CHOOSE i \in 1..Len(entries) :
                    /\ PrefixMatches(messageText, Chars(entries[i].key))
                    /\ \A j \in 1..(i - 1) :
                          ~PrefixMatches(messageText, Chars(entries[j].key))].value
    ELSE Undefined

FindKeywordReply(messageText) ==
    IF HasOwnProperty(autoReplyConfig.keywords, messageText)
    THEN GetProperty(autoReplyConfig.keywords, messageText)
    ELSE FirstPrefixReply(Entries(autoReplyConfig.keywords), messageText)

\* ------------------------------------------------------------- sending a reply

\* Variant of SendOrSilence that sends whatever the reply is
SendAnyway(t) == [t EXCEPT !.pc = "send", !.nSend = @ + 1]

\* "null means explicitly no reply", then "if (replyMessage)": the reply is
\* handed to message.reply, or the handling ends in silence
SendOrSilence(t) ==
    IF t.replyMessage = Null THEN Finished(t)
    ELSE IF Truthy(t.replyMessage)
    THEN [t EXCEPT !.pc = "send", !.nSend = @ + 1]
    ELSE Finished(t)

\* ------------------------------------------- keyword build: handleIncomingMessage

\* Variant of KeywordOrDefault without the default message
KeywordOnly(t, found) ==
    SendOrSilence([t EXCEPT !.replyMessage = found, !.decidedBy = "keyword"])

\* The reply of the keyword rule, or the default message when no rule matched
KeywordOrDefault(t, found) ==
    IF found = Undefined
    THEN SendOrSilence([t EXCEPT !.replyMessage = autoReplyConfig.defaultMessage,
                                 !.decidedBy = "default"])
    ELSE SendOrSilence([t EXCEPT !.replyMessage = found, !.decidedBy = "keyword"])

KeywordHandle(t) ==
    IF t.fromMe THEN Skipped(t, "filtered")
    ELSE IF FromGroup(t) THEN Skipped(t, "filtered")
    ELSE IF ~autoReplyConfig.enabled THEN Skipped(t, "disabled")
    ELSE IF IsOnCooldown(Sender(t)) THEN Skipped(CooldownRead(t), "cooldown")
    ELSE IF NotAFunction(autoReplyConfig) THEN Caught(Passed(t))
    ELSE KeywordOrDefault(Passed(t), FindKeywordReply(Trim(ToLowerCase(Chars(t.body)))))

\* --------------------------------------------------------- external data gateway

\* What a lookup resolves to: the parsed payload, or null (data = FALSE) when
\* makeRequest caught a timeout, a bad status or unparsable JSON. wellFormed
\* says whether the list the formatter iterates is there.
Payload(data, success, found, available, wellFormed) ==
    [data |-> data, success |-> success, found |-> found,
     available |-> available, wellFormed |-> wellFormed]

NoPayload == Payload(FALSE, FALSE, FALSE, 0, TRUE)

\* A formatter's outcome: the text, or a TypeError thrown while formatting
Returned(text) == [throws |-> FALSE, text |-> Str(text)]
Thrown == [throws |-> TRUE, text |-> Undefined]

FormatBookingResponse(data) ==
    IF ~data.data \/ ~data.success THEN Returned("booking-sorry")
    ELSE IF ~data.found THEN Returned("booking-none")
    ELSE IF ~data.wellFormed THEN Thrown
    ELSE Returned("booking-tickets")

\* Variant of FormatAvailabilityResponse that suggests the booking link
\* whatever the number of seats
AvailabilityAlwaysLinks(data) ==
    IF ~data.data \/ ~data.success THEN Returned("availability-sorry")
    ELSE Returned("availability-book-now")

FormatAvailabilityResponse(data) ==
    IF ~data.data \/ ~data.success THEN Returned("availability-sorry")
    ELSE IF data.available > 0 THEN Returned("availability-book-now")
    ELSE Returned("availability-full")

FormatScheduleResponse(data) ==
    IF ~data.data \/ ~data.success THEN Returned("schedule-sorry")
    ELSE IF ~data.wellFormed THEN Thrown
    ELSE Returned("schedule-list")

\* Variant of Format whose formatters lack the test of data.success: they
\* throw on a payload that reports a failure
FormatOrThrow(api, data) ==
    IF ~data.data \/ ~data.success THEN Thrown
    ELSE CASE api = "booking" -> FormatBookingResponse(data)
           [] api = "availability" -> FormatAvailabilityResponse(data)
           [] api = "schedule" -> FormatScheduleResponse(data)

Format(api, data) ==
    CASE api = "booking" -> FormatBookingResponse(data)
      [] api = "availability" -> FormatAvailabilityResponse(data)
      [] api = "schedule" -> FormatScheduleResponse(data)

\* The handling suspended at a gateway call
CallGateway(t, pc) == [t EXCEPT !.pc = pc, !.nGateway = @ + 1]

Logged(t, stage, api, data) ==
    [t EXCEPT !.lookups = Append(@, [stage |-> stage, api |-> api, data |-> data])]

\* ------------------------------------------------ AI build: handleIncomingMessage

MessageText(t) == Trim(Chars(t.body))
MessageTextLower(t) == ToLowerCase(MessageText(t))

\* "3. Fallback to keyword matching if AI didn't respond", then the send
KeywordStage(t) ==
    IF ~Truthy(t.replyMessage)
    THEN IF NotAFunction(autoReplyConfig) THEN Caught(t)
         ELSE KeywordOrDefault(t, FindKeywordReply(MessageTextLower(t)))
    ELSE SendOrSilence(t)

\* Variant of AfterDatabase that asks the AI stage whatever stage 1 replied
AfterDatabaseAsksAi(t) ==
    IF autoReplyConfig.useAI /\ aiAvailable
    THEN [t EXCEPT !.pc = "ai_contact", !.nContact = @ + 1]
    ELSE KeywordStage(t)

\* "2. Try AI with live database context", entered with the reply of stage 1
AfterDatabase(t) ==
    IF ~Truthy(t.replyMessage) /\ autoReplyConfig.useAI /\ aiAvailable
    THEN [t EXCEPT !.pc = "ai_contact", !.nContact = @ + 1]
    ELSE KeywordStage(t)

\* Variant of DatabaseQueryAt that tests the schedule triggers before the
\* availability triggers
DatabaseQueryScheduleFirst(t, i, textLower) ==
    IF i <= 1 /\ IncludesAny(textLower, BookingTriggers)
    THEN CallGateway(t, "db_booking")
    ELSE IF i <= 3 /\ IncludesAny(textLower, ScheduleTriggers)
    THEN CallGateway(t, "db_schedule")
    ELSE IF i <= 2 /\ IncludesAny(textLower, AvailabilityTriggers)
    THEN CallGateway(t, "db_availability")
    ELSE AfterDatabase([t EXCEPT !.replyMessage = Null])

\* handleDatabaseQuery from its i-th intent test on: suspended at the first
\* lookup whose triggers the text includes, or returning null
DatabaseQueryAt(t, i, textLower) ==
    IF i <= 1 /\ IncludesAny(textLower, BookingTriggers)
    THEN CallGateway(t, "db_booking")
    ELSE IF i <= 2 /\ IncludesAny(textLower, AvailabilityTriggers)
    THEN CallGateway(t, "db_availability")
    ELSE IF i <= 3 /\ IncludesAny(textLower, ScheduleTriggers)
    THEN CallGateway(t, "db_schedule")
    ELSE AfterDatabase([t EXCEPT !.replyMessage = Null])

DatabaseQueryFrom(t, i) == DatabaseQueryAt(t, i, ToLowerCase(MessageText(t)))

DbApi(pc) ==
    CASE pc = "db_booking" -> "booking"
      [] pc = "db_availability" -> "availability"
      [] pc = "db_schedule" -> "schedule"

DbIndex(pc) ==
    CASE pc = "db_booking" -> 1
      [] pc = "db_availability" -> 2
      [] pc = "db_schedule" -> 3

\* Variant of DatabaseLookupReturned that ends the handling with the lookup
LookupEnds(t, data) == Finished(Logged(t, "db", DbApi(t.pc), data))

\* A lookup of handleDatabaseQuery resolved to data
DatabaseLookupReturned(t, data) ==
    LET t1 == Logged(t, "db", DbApi(t.pc), data)
        formatted == Format(DbApi(t.pc), data)
    IN IF data.data /\ ~formatted.throws
       THEN AfterDatabase([t1 EXCEPT !.replyMessage = formatted.text,
                                     !.decidedBy = "live"])
       ELSE DatabaseQueryFrom(t1, DbIndex(t.pc) + 1)

\* From the explicit no-reply check on; t has passed the gates
AiResolve(t, messageTextLower) ==
    IF NotAFunction(autoReplyConfig) THEN Caught(t)
    ELSE IF /\ HasOwnProperty(autoReplyConfig.keywords, messageTextLower)
       /\ GetProperty(autoReplyConfig.keywords, messageTextLower) = Null
    THEN Finished(t)
    ELSE IF autoReplyConfig.useDatabase
    THEN DatabaseQueryFrom(t, 1)
    ELSE AfterDatabase(t)

AiHandle(t) ==
    IF t.fromMe THEN Skipped(t, "filtered")
    ELSE IF FromGroup(t) THEN Skipped(t, "filtered")
    ELSE IF ~autoReplyConfig.enabled THEN Skipped(t, "disabled")
    ELSE IF IsOnCooldown(Sender(t)) THEN Skipped(CooldownRead(t), "cooldown")
    ELSE AiResolve(Passed(t), MessageTextLower(t))

\* message.getContact() resolved: pushname || name || null, null too when it threw
ContactReturned(t, name) ==
    CallGateway([t EXCEPT !.senderName = name], "ai_booking")

\* aiService.generateReply is called; it returns null at once when the service
\* is not enabled
CallGenerateReply(t) ==
    IF aiAvailable
    THEN [t EXCEPT !.pc = "ai_generate", !.nAi = @ + 1]
    ELSE KeywordStage([t EXCEPT !.nAi = @ + 1, !.replyMessage = Null])

AiApi(pc) ==
    CASE pc = "ai_booking" -> "booking"
      [] pc = "ai_availability" -> "availability"
      [] pc = "ai_schedule" -> "schedule"

LiveDataKey(pc) ==
    CASE pc = "ai_booking" -> "customerBookings"
      [] pc = "ai_availability" -> "todayAvailability"
      [] pc = "ai_schedule" -> "schedule"

\* Variant of ContextLookupReturned in which a lookup that fails ends the
\* gathering of context: the generator is called with what there is
ContextLookupAborts(t, data) ==
    IF data.data /\ data.success
    THEN CASE t.pc = "ai_booking" ->
                  CallGateway([Logged(t, "ai", AiApi(t.pc), data) EXCEPT
                                  !.liveData = @ \cup {LiveDataKey(t.pc)}], "ai_availability")
           [] t.pc = "ai_availability" ->
                  CallGateway([Logged(t, "ai", AiApi(t.pc), data) EXCEPT
                                  !.liveData = @ \cup {LiveDataKey(t.pc)}], "ai_schedule")
           [] t.pc = "ai_schedule" ->
                  CallGenerateReply([Logged(t, "ai", AiApi(t.pc), data) EXCEPT
                                        !.liveData = @ \cup {LiveDataKey(t.pc)}])
    ELSE CallGenerateReply(Logged(t, "ai", AiApi(t.pc), data))

\* A context lookup of the AI stage resolved to data
ContextLookupReturned(t, data) ==
    LET t1 == Logged(t, "ai", AiApi(t.pc), data)
        t2 == IF data.data /\ data.success
              THEN [t1 EXCEPT !.liveData = @ \cup {LiveDataKey(t.pc)}]
              ELSE t1
    IN CASE t.pc = "ai_booking" -> CallGateway(t2, "ai_availability")
         [] t.pc = "ai_availability" -> CallGateway(t2, "ai_schedule")
         [] t.pc = "ai_schedule" -> CallGenerateReply(t2)

\* Variant of GenerateReplyReturned in which a generator that gives no text
\* ends the handling
GenerateReplyAborts(t, reply) ==
    IF Truthy(reply)
    THEN SendOrSilence([t EXCEPT !.replyMessage = reply, !.decidedBy = "ai"])
    ELSE Finished(t)

\* generateReply resolved to text or null
GenerateReplyReturned(t, reply) ==
    KeywordStage([t EXCEPT !.replyMessage = reply,
                           !.decidedBy = IF Truthy(reply) THEN "ai" ELSE @])

\* ---------------------------------------------- menu build: handleIncomingMessage

IsGreeting(text) ==
    text \in Greetings \/ \E g \in Greetings : StartsWith(text, g \o <<" ">>)
IsBookingQuery(text) == IncludesAny(text, BookingQueryWords)
IsAvailabilityQuery(text) == IncludesAny(text, AvailabilityQueryWords)
IsScheduleQuery(text) == IncludesAny(text, ScheduleQueryWords)
IsNewBookingQuery(text) == IncludesAny(text, NewBookingQueryWords)
IsContactQuery(text) == IncludesAny(text, ContactQueryWords)

\* The reply is chosen without a lookup
MenuReply(t, text, branch) ==
    SendOrSilence([t EXCEPT !.replyMessage = Str(text), !.decidedBy = branch])

\* Variant of HandleMenuOption without the options: the digit is text that
\* matches nothing
OptionAsText(t, option) == MenuReply(t, "apology-main-menu", "default")

\* handleMenuOption
HandleMenuOption(t, option) ==
    CASE option = <<"1">> -> CallGateway([t EXCEPT !.decidedBy = "option"], "menu_booking")
      [] option = <<"2">> -> MenuReply(t, "book-ticket-card", "option")
      [] option = <<"3">> -> CallGateway([t EXCEPT !.decidedBy = "option"], "menu_availability")
      [] option = <<"4">> -> CallGateway([t EXCEPT !.decidedBy = "option"], "menu_schedule")
      [] option = <<"5">> -> MenuReply(t, "contact-support-card", "option")

\* Variant of MenuResolve that tests the new-booking predicate before the
\* booking query
MenuResolveBookFirst(t, messageText, messageTextLower) ==
    IF messageTextLower \in SkipWords
    THEN IF Includes(messageTextLower, Thank)
         THEN [t EXCEPT !.pc = "send_thanks", !.nSend = @ + 1,
                        !.replyMessage = Str("thank-you"), !.decidedBy = "thanks"]
         ELSE Finished([t EXCEPT !.decidedBy = "filler"])
    ELSE IF messageText \in MenuOptions
    THEN HandleMenuOption(t, messageText)
    ELSE IF IsGreeting(messageTextLower) THEN MenuReply(t, "main-menu", "greeting")
    ELSE IF IsNewBookingQuery(messageTextLower)
    THEN MenuReply(t, "book-ticket-card", "new-booking")
    ELSE IF IsBookingQuery(messageTextLower)
    THEN CallGateway([t EXCEPT !.decidedBy = "booking"], "menu_booking")
    ELSE IF IsAvailabilityQuery(messageTextLower)
    THEN CallGateway([t EXCEPT !.decidedBy = "availability"], "menu_availability")
    ELSE IF IsScheduleQuery(messageTextLower)
    THEN CallGateway([t EXCEPT !.decidedBy = "schedule"], "menu_schedule")
    ELSE IF IsContactQuery(messageTextLower)
    THEN MenuReply(t, "contact-support-card", "contact")
    ELSE MenuReply(t, "apology-main-menu", "default")

\* Variant of MenuResolve that remembers the conversation: once some sender
\* has been replied to, a greeting is not answered with the menu again
MenuResolveRemembering(t, messageText, messageTextLower) ==
    IF /\ DOMAIN cooldownMap # {}
       /\ messageTextLower \notin SkipWords
       /\ messageText \notin MenuOptions
       /\ IsGreeting(messageTextLower)
    THEN MenuReply(t, "apology-main-menu", "default")
    ELSE IF messageTextLower \in SkipWords
         THEN IF Includes(messageTextLower, Thank)
              THEN [t EXCEPT !.pc = "send_thanks", !.nSend = @ + 1,
                             !.replyMessage = Str("thank-you"), !.decidedBy = "thanks"]
              ELSE Finished([t EXCEPT !.decidedBy = "filler"])
         ELSE IF messageText \in MenuOptions
         THEN HandleMenuOption(t, messageText)
         ELSE IF IsGreeting(messageTextLower) THEN MenuReply(t, "main-menu", "greeting")
         ELSE IF IsBookingQuery(messageTextLower)
         THEN CallGateway([t EXCEPT !.decidedBy = "booking"], "menu_booking")
         ELSE IF IsAvailabilityQuery(messageTextLower)
         THEN CallGateway([t EXCEPT !.decidedBy = "availability"], "menu_availability")
         ELSE IF IsScheduleQuery(messageTextLower)
         THEN CallGateway([t EXCEPT !.decidedBy = "schedule"], "menu_schedule")
         ELSE IF IsNewBookingQuery(messageTextLower)
         THEN MenuReply(t, "book-ticket-card", "new-booking")
         ELSE IF IsContactQuery(messageTextLower)
         THEN MenuReply(t, "contact-support-card", "contact")
         ELSE MenuReply(t, "apology-main-menu", "default")

\* From the acknowledgement words on; t has passed the gates
MenuResolve(t, messageText, messageTextLower) ==
    IF messageTextLower \in SkipWords
    THEN IF Includes(messageTextLower, Thank)
         THEN [t EXCEPT !.pc = "send_thanks", !.nSend = @ + 1,
                        !.replyMessage = Str("thank-you"), !.decidedBy = "thanks"]
         ELSE Finished([t EXCEPT !.decidedBy = "filler"])
    ELSE IF messageText \in MenuOptions
    THEN HandleMenuOption(t, messageText)
    ELSE IF IsGreeting(messageTextLower) THEN MenuReply(t, "main-menu", "greeting")
    ELSE IF IsBookingQuery(messageTextLower)
    THEN CallGateway([t EXCEPT !.decidedBy = "booking"], "menu_booking")
    ELSE IF IsAvailabilityQuery(messageTextLower)
    THEN CallGateway([t EXCEPT !.decidedBy = "availability"], "menu_availability")
    ELSE IF IsScheduleQuery(messageTextLower)
    THEN CallGateway([t EXCEPT !.decidedBy = "schedule"], "menu_schedule")
    ELSE IF IsNewBookingQuery(messageTextLower)
    THEN MenuReply(t, "book-ticket-card", "new-booking")
    ELSE IF IsContactQuery(messageTextLower)
    THEN MenuReply(t, "contact-support-card", "contact")
    ELSE MenuReply(t, "apology-main-menu", "default")

MenuHandle(t) ==
    IF t.fromMe THEN Skipped(t, "filtered")
    ELSE IF FromGroup(t) THEN Skipped(t, "filtered")
    ELSE IF ~autoReplyConfig.enabled THEN Skipped(t, "disabled")
    ELSE IF IsOnCooldown(Sender(t)) THEN Skipped(CooldownRead(t), "cooldown")
    ELSE MenuResolve(Passed(t), MessageText(t), MessageTextLower(t))

MenuApi(pc) ==
    CASE pc = "menu_booking" -> "booking"
      [] pc = "menu_availability" -> "availability"
      [] pc = "menu_schedule" -> "schedule"

\* The text lookupSenderBooking, checkAvailabilityForQuery and
\* getScheduleResponse return when the lookup gave nothing or formatting threw
MenuFallbackText(pc) ==
    CASE pc = "menu_booking" -> Str("booking-sorry-right-now")
      [] pc = "menu_availability" -> Str("availability-sorry-right-now")
      [] pc = "menu_schedule" -> Str("schedule-sorry-right-now")

\* Variant of MenuLookupReturned that has no notice of its own: a lookup
\* that gave nothing ends in silence
MenuLookupSilent(t, data) ==
    IF data.data /\ ~Format(MenuApi(t.pc), data).throws
    THEN SendOrSilence([Logged(t, "menu", MenuApi(t.pc), data) EXCEPT
                           !.replyMessage = Format(MenuApi(t.pc), data).text])
    ELSE Finished(Logged(t, "menu", MenuApi(t.pc), data))

\* A lookup of the menu build resolved to data
MenuLookupReturned(t, data) ==
    LET t1 == Logged(t, "menu", MenuApi(t.pc), data)
        formatted == Format(MenuApi(t.pc), data)
    IN IF data.data /\ ~formatted.throws
       THEN SendOrSilence([t1 EXCEPT !.replyMessage = formatted.text])
       ELSE SendOrSilence([t1 EXCEPT !.replyMessage = MenuFallbackText(t.pc)])

\* --------------------------------------------------------- menu build: testReply

\* No call of testReply has been made
IdleProbe ==
    [pc |-> "idle", messageText |-> "", reply |-> Null, reason |-> "",
     lookups |-> <<>>]

\* testReply returns { reply, reason }
ProbeReturned(p, reply, reason) ==
    [p EXCEPT !.pc = "returned", !.reply = reply, !.reason = reason]

\* testReply suspended at a gateway call
ProbeCalls(p, pc, reason) == [p EXCEPT !.pc = pc, !.reason = reason]

\* handleMenuOption, called by testReply
TestMenuOption(p, option) ==
    CASE option = <<"1">> -> ProbeCalls(p, "menu_booking", "Menu option 1")
      [] option = <<"2">> -> ProbeReturned(p, Str("book-ticket-card"), "Menu option 2")
      [] option = <<"3">> -> ProbeCalls(p, "menu_availability", "Menu option 3")
      [] option = <<"4">> -> ProbeCalls(p, "menu_schedule", "Menu option 4")
      [] option = <<"5">> -> ProbeReturned(p, Str("contact-support-card"), "Menu option 5")

\* testReply(messageText, senderPhone) to its first await or its return
TestReplyCalled(p, messageText, messageTextLower) ==
    IF messageTextLower \in TestSkipWords
    THEN ProbeReturned(p, Null, "Acknowledgement word - no reply")
    ELSE IF Includes(messageTextLower, Thank)
    THEN ProbeReturned(p, Str("thank-you"), "Thank you response")
    ELSE IF messageText \in MenuOptions
    THEN TestMenuOption(p, messageText)
    ELSE IF IsGreeting(messageTextLower)
    THEN ProbeReturned(p, Str("main-menu"), "Greeting detected")
    ELSE IF IsBookingQuery(messageTextLower)
    THEN ProbeCalls(p, "menu_booking", "Booking query detected")
    ELSE IF IsAvailabilityQuery(messageTextLower)
    THEN ProbeCalls(p, "menu_availability", "Availability query detected")
    ELSE IF IsScheduleQuery(messageTextLower)
    THEN ProbeCalls(p, "menu_schedule", "Schedule query detected")
    ELSE IF IsNewBookingQuery(messageTextLower)
    THEN ProbeReturned(p, Str("book-ticket-card"), "New booking query detected")
    ELSE IF IsContactQuery(messageTextLower)
    THEN ProbeReturned(p, Str("contact-support-card"), "Contact/help query detected")
    ELSE ProbeReturned(p, Str("apology-main-menu"), "Default response")

\* The lookup of testReply resolved to data: the text lookupSenderBooking,
\* checkAvailabilityForQuery or getScheduleResponse returns
TestLookupReturned(p, data) ==
    LET formatted == Format(MenuApi(p.pc), data)
        p1 == [p EXCEPT !.lookups = Append(@, [api |-> MenuApi(p.pc), data |-> data])]
    IN IF data.data /\ ~formatted.throws
       THEN ProbeReturned(p1, formatted.text, p.reason)
       ELSE ProbeReturned(p1, MenuFallbackText(p.pc), p.reason)

\* Variant of HandleIncomingMessage without filters and gates
HandleUngated(t) == KeywordOrDefault(Passed(t), Undefined)

\* ----------------------------------------------------------------- the handler

HandleIncomingMessage(t) ==
    CASE build = "keyword" -> KeywordHandle(t)
      [] build = "ai" -> AiHandle(t)
      [] build = "menu" -> MenuHandle(t)

\* -------------------------------------------------------------- configuration

\* { ...target, ...source }: the keys of target in their order with the values
\* source gives them, then the keys only source has, in its order
RECURSIVE SpreadInto(_, _)
SpreadInto(target, source) ==
    IF source = <<>> THEN target
    ELSE LET rule == Head(source)
             merged ==
                 IF HasOwnProperty(target, rule.key)
                 THEN [i \in 1..Len(target) |->
                          IF target[i].key = rule.key THEN rule ELSE target[i]]
                 ELSE Append(target, rule)
         IN SpreadInto(merged, Tail(source))

\* The values of newConfig.keywords for which typeof gives 'object': a
\* mapping, null, an array
TypeofObject == {"object", "null", "array"}

\* updateAutoReplyConfig of the keyword and AI builds
UpdatedKeywordConfig(cfg, newConfig) ==
    [cfg EXCEPT
        !.enabled = IF newConfig.enabled.type = "boolean"
                    THEN newConfig.enabled.bool ELSE @,
        !.defaultMessage = IF newConfig.defaultMessage.type = "string"
                           THEN Str(newConfig.defaultMessage.val) ELSE @,
        !.cooldown = IF newConfig.cooldown.type = "number"
                     THEN newConfig.cooldown.num ELSE @,
        !.keywords = IF newConfig.keywords.type \in TypeofObject
                     THEN SpreadInto(@, newConfig.keywords.entries) ELSE @,
        !.keywordsProto = IF newConfig.keywords.type \in TypeofObject
                          THEN "Object.prototype" ELSE @]

\* updateAutoReplyConfig of the menu build
UpdatedMenuConfig(cfg, newConfig) ==
    [cfg EXCEPT
        !.enabled = IF newConfig.enabled.type = "boolean"
                    THEN newConfig.enabled.bool ELSE @,
        !.useDatabase = IF newConfig.useDatabase.type = "boolean"
                        THEN newConfig.useDatabase.bool ELSE @,
        !.cooldown = IF newConfig.cooldown.type = "number"
                     THEN newConfig.cooldown.num ELSE @]

UpdatedConfig(cfg, newConfig) ==
    IF build = "menu" THEN UpdatedMenuConfig(cfg, newConfig)
    ELSE UpdatedKeywordConfig(cfg, newConfig)

\* A partial update giving only these fields
Partial(enabled, defaultMessage, cooldown, keywords, useDatabase) ==
    [enabled |-> enabled, defaultMessage |-> defaultMessage, cooldown |-> cooldown,
     keywords |-> keywords, useDatabase |-> useDatabase]

NoKeywords == [type |-> "undefined", entries |-> <<>>]
KeywordsObject(entries) == [type |-> "object", entries |-> entries]

\* An array of replies: its own enumerable properties are its indices
KeywordsArray(values) ==
    [type |-> "array",
     entries |-> [i \in 1..Len(values) |->
                     [key |-> <<"0", "1", "2">>[i], value |-> values[i]]]]

\* keywords[keyword.toLowerCase()] = reply
WithKeyword(keywords, keyword, reply) ==
    SpreadInto(keywords, <<[key |-> Text(ToLowerCase(Chars(keyword))), value |-> reply]>>)

\* autoReplyConfig.keywords[keyword.toLowerCase()] = reply. The key __proto__
\* is the accessor of Object.prototype: the assignment creates no rule, and it
\* replaces the prototype of the table when the value is null.
AssignedKeyword(cfg, keyword, reply) ==
    IF ToLowerCase(Chars(keyword)) = Chars("__proto__")
    THEN IF reply = Null /\ cfg.keywordsProto # "null"
         THEN [cfg EXCEPT !.keywordsProto = "null"]
         ELSE cfg
    ELSE [cfg EXCEPT !.keywords = WithKeyword(@, keyword, reply)]

\* delete keywords[keyword.toLowerCase()]
WithoutKeyword(keywords, keyword) ==
    SelectSeq(keywords, LAMBDA rule : rule.key # Text(ToLowerCase(Chars(keyword))))

\* ----------------------------------------------------------------- snapshots

\* No call of getAutoReplyConfig yet
NoSnapshot(cfg) ==
    [taken |-> FALSE, returned |-> cfg, config |-> cfg, aliased |-> FALSE,
     changedSince |-> FALSE, repeat |-> FALSE, previous |-> cfg,
     delivered |-> FALSE, deliveredBefore |-> FALSE]

\* Variant of ShallowCopy that reports the auto-reply as off while a sender
\* is on record in the cooldown table
LiveCopy(cfg) == [cfg EXCEPT !.enabled = @ /\ DOMAIN cooldownMap = {}]

\* { ...autoReplyConfig }: a new object with the fields of the configuration
ShallowCopy(cfg) == cfg

\* "return getAutoReplyConfig()" at the end of updateAutoReplyConfig
UpdateReturns(cfg, newConfig) == ShallowCopy(UpdatedConfig(cfg, newConfig))

\* The keywords field of the copy is the rule table object itself, where the
\* configuration has one
SharesKeywords == build # "menu"

\* The object returned by getAutoReplyConfig now, held by a caller that held
\* before: returned is its value at the return, config its value since,
\* repeat says that nothing was updated since the call before, delivered
\* that a message had been delivered by the time of the call
NewSnapshot(cfg, before) ==
    [taken |-> TRUE, returned |-> ShallowCopy(cfg), config |-> ShallowCopy(cfg),
     aliased |-> SharesKeywords, changedSince |-> FALSE,
     repeat |-> before.taken /\ ~before.changedSince,
     previous |-> IF before.taken /\ ~before.changedSince
                  THEN before.returned ELSE ShallowCopy(cfg),
     delivered |-> \E m \in Slots : tasks[m].pc # "idle",
     deliveredBefore |-> before.taken /\ before.delivered]

\* The held object after setKeyword or removeKeyword wrote into the rule
\* table and left the configuration cfg
AfterTableWrite(held, cfg) ==
    IF ~held.taken THEN held
    ELSE [held EXCEPT
             !.changedSince = TRUE,
             !.config = IF held.aliased
                        THEN [@ EXCEPT !.keywords = cfg.keywords,
                                       !.keywordsProto = cfg.keywordsProto]
                        ELSE @]

\* The held object after updateAutoReplyConfig(newConfig): a new rule table
\* object replaces the one the held object shares
AfterUpdate(held, newConfig) ==
    IF ~held.taken THEN held
    ELSE [held EXCEPT
             !.changedSince = TRUE,
             !.aliased = /\ @
                         /\ ~(build # "menu" /\ newConfig.keywords.type \in TypeofObject)]

\* ------------------------------------------------------------ HTTP middleware

Bearer == <<"B","e","a","r","e","r"," ">>

\* A request: its method and path, the x-api-key header, the authorization
\* header and the api_key query parameter (undefined when absent), and its
\* body: "none", "json" (an object that parses) or "malformed"
Request(method, path, xApiKey, authorization, apiKeyQuery, body) ==
    [method |-> method, path |-> path, xApiKey |-> xApiKey,
     authorization |-> authorization, apiKeyQuery |-> apiKeyQuery, body |-> body]

\* The server has answered no request; apiKey is config.apiKey
NoRequest(apiKey) ==
    [apiKey |-> apiKey, served |-> FALSE,
     req |-> Request("", "", Undefined, Undefined, Undefined, "none"),
     status |-> 0, auth |-> "none", routed |-> FALSE, by |-> "none"]

\* req.headers['authorization']?.replace('Bearer ', '')
Unbearer(authorization) ==
    IF authorization = Undefined THEN Undefined
    ELSE Str(Text(RemoveFirst(Chars(authorization.val), Bearer)))

\* req.headers['x-api-key'] || authorization without 'Bearer ' || req.query.api_key
ProvidedKey(req) ==
    IF Truthy(req.xApiKey) THEN req.xApiKey
    ELSE IF Truthy(Unbearer(req.authorization)) THEN Unbearer(req.authorization)
    ELSE req.apiKeyQuery

\* Variant of ApiKeyAuth that answers 401 to every request with a key that
\* is not the configured one
ApiKeyAuthNo403(apiKey, req) ==
    IF ~Truthy(apiKey) THEN "next"
    ELSE IF req.path \in {"/health", "/api/health"} THEN "next"
    ELSE IF ProvidedKey(req) # apiKey THEN "401"
    ELSE "next"

\* apiKeyAuth: it calls next(), or answers 401 or 403
ApiKeyAuth(apiKey, req) ==
    IF ~Truthy(apiKey) THEN "next"
    ELSE IF req.path \in {"/health", "/api/health"} THEN "next"
    ELSE IF ~Truthy(ProvidedKey(req)) THEN "401"
    ELSE IF ProvidedKey(req) # apiKey THEN "403"
    ELSE "next"

\* A response: the status, what apiKeyAuth did ("none" when it was not
\* called), whether a route handler ran, and which
Response(status, auth, routed, by) ==
    [status |-> status, auth |-> auth, routed |-> routed, by |-> by]

\* app.use('/api', routes) and the handlers after it: the route of the request
Routes(req) ==
    IF req.method = "GET" /\ req.path = "/api/health"
    THEN Response(200, "next", TRUE, "health")
    ELSE IF req.method = "GET" /\ req.path = "/api/auto-reply"
    THEN Response(200, "next", TRUE, "getAutoReplyConfig")
    ELSE IF req.method = "PUT" /\ req.path = "/api/auto-reply"
    THEN Response(200, "next", TRUE, "updateAutoReplyConfig")
    ELSE Response(404, "next", FALSE, "none")

\* The middleware of the app in the order of its app.use calls: express.json
\* hands a body that does not parse to the error handler, which answers 500;
\* requestLogger calls next(); apiKeyAuth; the routes
AppHandle(apiKey, req) ==
    IF req.body = "malformed" THEN Response(500, "none", FALSE, "errorHandler")
    ELSE CASE ApiKeyAuth(apiKey, req) = "401" -> Response(401, "401", FALSE, "none")
           [] ApiKeyAuth(apiKey, req) = "403" -> Response(403, "403", FALSE, "none")
           [] OTHER -> Routes(req)

\* req.body of a request the routes see
BodyOf(req) ==
    IF req.body = "json"
    THEN Partial(BoolField(FALSE), Absent, Absent, NoKeywords, Absent)
    ELSE Partial(Absent, Absent, Absent, NoKeywords, Absent)

\* ------------------------------------------------------------------- history

\* A reply to the sender was delivered within the cooldown that has been in
\* force without change since
InWindow(sender) ==
    /\ sender \in DOMAIN lastReplied
    /\ ~lastReplied[sender].cooldownChanged
    /\ now - lastReplied[sender].at < autoReplyConfig.cooldown * MsPerSecond

InFlight(t) == t.pc \notin {"idle", "done"}

\* -------------------------------------------------------------------- actions

\* A rule with the no-reply value has exactly this text as its key
NoReplyRuleFor(text) ==
    \E i \in 1..Len(autoReplyConfig.keywords) :
        /\ Chars(autoReplyConfig.keywords[i].key) = text
        /\ autoReplyConfig.keywords[i].value = Null

\* The record of a handling that starts now: the message and what held at
\* the start
StartedTask(msg) ==
    [NewTask(msg) EXCEPT
        !.enabledAtStart = autoReplyConfig.enabled,
        !.inWindowAtStart = InWindow(SenderOf(msg.from)),
        !.exactSuppressAtStart = NoReplyRuleFor(ToLowerCase(Trim(Chars(msg.body)))),
        !.afterCaught = \E k \in Slots : tasks[k].caught]

Decided(t) == t.pc \in {"send", "send_thanks", "done"}

\* The handling after a step that took it from before to after: when the step
\* decided the reply, what the rule table and the default message were then
Observed(before, after) ==
    IF Decided(after) /\ ~Decided(before) /\ ~after.caught
    THEN [after EXCEPT
             !.resolution = FindKeywordReply(ToLowerCase(Trim(Chars(after.body)))),
             !.defaultThen = autoReplyConfig.defaultMessage]
    ELSE after

\* A message event arrives and its handler runs to its first await. The
\* handling takes the lowest of the free slots given.
Deliver(slots, messages) ==
    \E m \in slots, msg \in messages :
        /\ tasks[m].pc = "idle"
        /\ \A k \in 1..(m - 1) : tasks[k].pc # "idle"
        /\ \E t \in {StartedTask(msg)} :
              tasks' = [tasks EXCEPT ![m] = Observed(t, HandleIncomingMessage(t))]
        /\ UNCHANGED <<build, now, cooldownMap, autoReplyConfig, aiAvailable, lastReplied,
                       snapshot, probe, http>>

\* Variant of GatewayReturns for a gateway client that answers its requests
\* one at a time, in the order of the handlings that made them
GatewayReturnsInTurn(payloads) ==
    \E m \in Slots, data \in payloads :
        /\ tasks[m].pc \in {"db_booking", "db_availability", "db_schedule",
                            "ai_booking", "ai_availability", "ai_schedule",
                            "menu_booking", "menu_availability", "menu_schedule"}
        /\ \A k \in 1..(m - 1) : tasks[k].pc \in {"idle", "done"}
        /\ tasks' = [tasks EXCEPT ![m] = Observed(tasks[m],
              CASE tasks[m].pc \in {"db_booking", "db_availability", "db_schedule"}
                       -> DatabaseLookupReturned(tasks[m], data)
                [] tasks[m].pc \in {"ai_booking", "ai_availability", "ai_schedule"}
                       -> ContextLookupReturned(tasks[m], data)
                [] OTHER -> MenuLookupReturned(tasks[m], data))]
        /\ UNCHANGED <<build, now, cooldownMap, autoReplyConfig, aiAvailable, lastReplied,
                       snapshot, probe, http>>

\* A gateway lookup resolves
GatewayReturns(payloads) ==
    \E m \in Slots, data \in payloads :
        /\ tasks[m].pc \in {"db_booking", "db_availability", "db_schedule",
                            "ai_booking", "ai_availability", "ai_schedule",
                            "menu_booking", "menu_availability", "menu_schedule"}
        /\ tasks' = [tasks EXCEPT ![m] = Observed(tasks[m],
              CASE tasks[m].pc \in {"db_booking", "db_availability", "db_schedule"}
                       -> DatabaseLookupReturned(tasks[m], data)
                [] tasks[m].pc \in {"ai_booking", "ai_availability", "ai_schedule"}
                       -> ContextLookupReturned(tasks[m], data)
                [] OTHER -> MenuLookupReturned(tasks[m], data))]
        /\ UNCHANGED <<build, now, cooldownMap, autoReplyConfig, aiAvailable, lastReplied,
                       snapshot, probe, http>>

\* message.getContact() resolves or rejects
ContactReturns(names) ==
    \E m \in Slots, name \in names :
        /\ tasks[m].pc = "ai_contact"
        /\ tasks' = [tasks EXCEPT ![m] = ContactReturned(tasks[m], name)]
        /\ UNCHANGED <<build, now, cooldownMap, autoReplyConfig, aiAvailable, lastReplied,
                       snapshot, probe, http>>

\* aiService.generateReply resolves
GenerateReturns(replies) ==
    \E m \in Slots, reply \in replies :
        /\ tasks[m].pc = "ai_generate"
        /\ tasks' = [tasks EXCEPT ![m] =
              Observed(tasks[m], GenerateReplyReturned(tasks[m], reply))]
        /\ UNCHANGED <<build, now, cooldownMap, autoReplyConfig, aiAvailable, lastReplied,
                       snapshot, probe, http>>

\* message.reply resolves: the cooldown is set and the handling ends
SendSucceeds ==
    \E m \in Slots :
        /\ tasks[m].pc \in {"send", "send_thanks"}
        /\ LET sender == Sender(tasks[m])
           IN /\ cooldownMap' = SetCooldown(sender)
              /\ lastReplied' =
                    [s \in (DOMAIN lastReplied) \cup {sender} |->
                        IF s = sender THEN [at |-> now, cooldownChanged |-> FALSE]
                        ELSE lastReplied[s]]
              /\ tasks' = [k \in Slots |->
                    IF k = m
                    THEN Finished([tasks[m] EXCEPT !.sendResult = "ok",
                                                   !.nCooldownWrite = @ + 1,
                                                   !.inWindowAtSend = InWindow(sender)])
                    ELSE IF InFlight(tasks[k]) /\ Sender(tasks[k]) = sender
                    THEN [tasks[k] EXCEPT !.overlapped = TRUE]
                    ELSE tasks[k]]
        /\ UNCHANGED <<build, now, autoReplyConfig, aiAvailable, snapshot, probe, http>>

\* Variant of SendFails that marks the sender before the send is awaited
SendFailsMarking ==
    \E m \in Slots :
        /\ tasks[m].pc \in {"send", "send_thanks"}
        /\ cooldownMap' = SetCooldown(Sender(tasks[m]))
        /\ tasks' = [tasks EXCEPT ![m] =
              IF @.pc = "send_thanks" THEN Caught([@ EXCEPT !.sendResult = "failed"])
              ELSE Finished([@ EXCEPT !.sendResult = "failed"])]
        /\ UNCHANGED <<build, now, autoReplyConfig, aiAvailable, lastReplied,
                       snapshot, probe, http>>

\* message.reply rejects: logged by the catch around it, or by the catch of
\* the event handler
SendFails ==
    \E m \in Slots :
        /\ tasks[m].pc \in {"send", "send_thanks"}
        /\ tasks' = [tasks EXCEPT ![m] =
              IF @.pc = "send_thanks" THEN Caught([@ EXCEPT !.sendResult = "failed"])
              ELSE Finished([@ EXCEPT !.sendResult = "failed"])]
        /\ UNCHANGED <<build, now, cooldownMap, autoReplyConfig, aiAvailable, lastReplied,
                       snapshot, probe, http>>

\* The handler has returned; its record is dropped
Forget ==
    \E m \in Slots :
        /\ tasks[m].pc = "done"
        /\ tasks' = [tasks EXCEPT ![m] = IdleTask]
        /\ UNCHANGED <<build, now, cooldownMap, autoReplyConfig, aiAvailable, lastReplied,
                       snapshot, probe, http>>

Tick ==
    /\ now + ClockStep <= ClockStep * (MaxTicks + 1)
    /\ now' = now + ClockStep
    /\ UNCHANGED <<build, cooldownMap, autoReplyConfig, aiAvailable, tasks, lastReplied,
                 snapshot, probe, http>>

\* PUT /auto-reply
UpdateAutoReplyConfig(partials) ==
    \E newConfig \in partials :
        /\ autoReplyConfig' = UpdatedConfig(autoReplyConfig, newConfig)
        /\ lastReplied' = [s \in DOMAIN lastReplied |->
              [lastReplied[s] EXCEPT !.cooldownChanged =
                  @ \/ autoReplyConfig'.cooldown # autoReplyConfig.cooldown]]
        /\ snapshot' = AfterUpdate(snapshot, newConfig)
        /\ UNCHANGED <<build, now, cooldownMap, aiAvailable, tasks, probe, http>>

\* POST /auto-reply/keyword
SetKeyword(keywordsGiven, replies) ==
    \E keyword \in keywordsGiven, reply \in replies :
        /\ keyword # ""
        /\ autoReplyConfig' =
              IF build = "menu" THEN autoReplyConfig
              ELSE AssignedKeyword(autoReplyConfig, keyword, reply)
        /\ snapshot' = AfterTableWrite(snapshot, autoReplyConfig')
        /\ UNCHANGED <<build, now, cooldownMap, aiAvailable, tasks, lastReplied,
                   probe, http>>

\* DELETE /auto-reply/keyword/:keyword
RemoveKeyword(keywordsGiven) ==
    \E keyword \in keywordsGiven :
        /\ autoReplyConfig' =
              IF build = "menu" THEN autoReplyConfig
              ELSE [autoReplyConfig EXCEPT !.keywords = WithoutKeyword(@, keyword)]
        /\ snapshot' = AfterTableWrite(snapshot, autoReplyConfig')
        /\ UNCHANGED <<build, now, cooldownMap, aiAvailable, tasks, lastReplied,
                   probe, http>>

\* GET /auto-reply: a caller takes the object getAutoReplyConfig returns
GetAutoReplyConfig ==
    /\ snapshot' = NewSnapshot(autoReplyConfig, snapshot)
    /\ UNCHANGED <<build, now, cooldownMap, autoReplyConfig, aiAvailable, tasks,
                   lastReplied, probe, http>>

\* The caller writes into the object it holds: it flips enabled, or it
\* assigns a rule in the keywords of the object
MutateSnapshot(keywordsGiven, replies) ==
    /\ snapshot.taken
    /\ \/ /\ snapshot' = [snapshot EXCEPT !.config.enabled = ~@,
                                           !.changedSince = TRUE]
          /\ UNCHANGED autoReplyConfig
       \/ \E keyword \in keywordsGiven, reply \in replies :
             /\ build # "menu"
             /\ snapshot' = [snapshot EXCEPT
                                !.config = AssignedKeyword(@, keyword, reply),
                                !.changedSince = TRUE]
             /\ autoReplyConfig' =
                   IF snapshot.aliased
                   THEN AssignedKeyword(autoReplyConfig, keyword, reply)
                   ELSE autoReplyConfig
    /\ UNCHANGED <<build, now, cooldownMap, aiAvailable, tasks, lastReplied,
                   probe, http>>

\* Variant of TestReply that marks the sender as a live reply does
TestReplyMarking(messages) ==
    \E msg \in messages :
        /\ build = "menu"
        /\ probe.pc \in {"idle", "returned"}
        /\ probe' = TestReplyCalled([IdleProbe EXCEPT !.messageText = msg.body],
                                    Trim(Chars(msg.body)),
                                    ToLowerCase(Trim(Chars(msg.body))))
        /\ cooldownMap' = SetCooldown(SenderOf(msg.from))
        /\ UNCHANGED <<build, now, autoReplyConfig, aiAvailable, tasks,
                       lastReplied, snapshot, http>>

\* POST /test-reply: testReply is called with the message of the body
TestReply(messages) ==
    \E msg \in messages :
        /\ build = "menu"
        /\ probe.pc \in {"idle", "returned"}
        /\ probe' = TestReplyCalled([IdleProbe EXCEPT !.messageText = msg.body],
                                    Trim(Chars(msg.body)),
                                    ToLowerCase(Trim(Chars(msg.body))))
        /\ UNCHANGED <<build, now, cooldownMap, autoReplyConfig, aiAvailable, tasks,
                       lastReplied, snapshot, http>>

\* The gateway lookup of testReply resolves
TestLookupReturns(payloads) ==
    \E data \in payloads :
        /\ probe.pc \in {"menu_booking", "menu_availability", "menu_schedule"}
        /\ probe' = TestLookupReturned(probe, data)
        /\ UNCHANGED <<build, now, cooldownMap, autoReplyConfig, aiAvailable, tasks,
                       lastReplied, snapshot, http>>

\* An HTTP request is answered
HttpRequest(requests) ==
    \E req \in requests :
        \E res \in {AppHandle(http.apiKey, req)} :
            /\ http' = [http EXCEPT !.served = TRUE, !.req = req,
                                    !.status = res.status, !.auth = res.auth,
                                    !.routed = res.routed, !.by = res.by]
            /\ IF res.by = "updateAutoReplyConfig"
               THEN /\ autoReplyConfig' = UpdatedConfig(autoReplyConfig, BodyOf(req))
                    /\ lastReplied' = [s \in DOMAIN lastReplied |->
                          [lastReplied[s] EXCEPT !.cooldownChanged =
                              @ \/ autoReplyConfig'.cooldown # autoReplyConfig.cooldown]]
                    /\ snapshot' = AfterUpdate(snapshot, BodyOf(req))
               ELSE IF res.by = "getAutoReplyConfig"
               THEN /\ snapshot' = NewSnapshot(autoReplyConfig, snapshot)
                    /\ UNCHANGED <<autoReplyConfig, lastReplied>>
               ELSE UNCHANGED <<autoReplyConfig, lastReplied, snapshot>>
            /\ UNCHANGED <<build, now, cooldownMap, aiAvailable, tasks, probe>>

\* ------------------------------------------------------------------ start-up

InitialCooldown == IF EnvCooldown # 0 THEN EnvCooldown ELSE DefaultCooldown

\* The state after the handlers module of one of the builds is loaded. The
\* configuration record has the fields of all builds: the keyword build has
\* no useAI and useDatabase and never reads them, the menu build has no rule
\* table.
InitWith(builds, enabledValues, aiValues, apiKeys) ==
    /\ build \in builds
    /\ now = ClockStep
    /\ cooldownMap = [s \in {} |-> 0]
    /\ autoReplyConfig \in
          [enabled : enabledValues, useAI : {TRUE}, useDatabase : {TRUE},
           defaultMessage : {ConfigDefaultMessage},
           keywords : {IF build = "menu" THEN <<>> ELSE ConfigKeywords},
           keywordsProto : {"Object.prototype"},
           cooldown : {InitialCooldown}]
    /\ aiAvailable \in aiValues
    /\ tasks = [m \in Slots |-> IdleTask]
    /\ lastReplied = [s \in {} |-> [at |-> 0, cooldownChanged |-> FALSE]]
    /\ snapshot = NoSnapshot(autoReplyConfig)
    /\ probe = IdleProbe
    /\ http \in {NoRequest(apiKey) : apiKey \in apiKeys}

\* The server runs without an API key
InitOf(builds, enabledValues, aiValues) ==
    InitWith(builds, enabledValues, aiValues, {Null})

\* --------------------------------------------------------------------- inputs

Chat1 == "1@c.us"
Chat2 == "2@c.us"
GroupChat == "7@g.us"

Message(from, fromMe, body) == [from |-> from, fromMe |-> fromMe, body |-> body]

BodyHello == " Hello"
BodyTicket == "ticket"
BodyOk == " OK "
BodyNoThanks == "No thanks"
BodyNoTicket == "No ticket"
BodyThanks == "thanks"
BodyXyz == "xyz"
BodyBooking == "booking"

FoundBooking == Payload(TRUE, TRUE, TRUE, 0, TRUE)

\* { success: false }
Unsuccessful == Payload(TRUE, FALSE, FALSE, 0, TRUE)

\* { success: true, found: true } without the list of bookings
Malformed == Payload(TRUE, TRUE, TRUE, 0, FALSE)

\* Updates of the cooldown alone, in seconds
CooldownUpdates ==
    {Partial(Absent, Absent, NumField(n), NoKeywords, Absent) : n \in {EnvCooldown + 1}}

\* ------------------------------------------ cooldown under concurrent handlings

\* Handlings overlap; every slot is used once.

CooldownMessages ==
    {Message(from, FALSE, body) : from \in {Chat1, Chat2},
                                  body \in {BodyHello, BodyTicket}}

InitCooldown == InitOf({"keyword", "ai", "menu"}, {TRUE}, {FALSE})

NextCooldown ==
    \/ Deliver(Slots, CooldownMessages)
    \/ GatewayReturns({FoundBooking})
    \/ SendSucceeds
    \/ SendFails
    \/ Tick
    \/ UpdateAutoReplyConfig(CooldownUpdates)

SpecCooldown == InitCooldown /\ [][NextCooldown]_vars

\* ------------------------------------------------- the pipeline of one message

\* Messages are handled one after the other, as WhatsApp delivers them; the
\* configuration and the rule table change while a handling is suspended.

PipelineMessages ==
    {Message(Chat1, FALSE, body) :
        body \in {BodyHello, BodyTicket, BodyOk, BodyNoThanks, BodyNoTicket,
                  BodyThanks, BodyXyz}}
    \cup {Message(GroupChat, FALSE, BodyTicket), Message(Chat1, TRUE, BodyTicket)}

PipelineUpdates ==
    { Partial(BoolField(FALSE), Absent, Absent, NoKeywords, Absent),
      Partial(Absent, StrField(""), Absent, NoKeywords, Absent) }

InitPipeline == InitOf({"keyword", "ai", "menu"}, {TRUE, FALSE}, {TRUE, FALSE})

NextPipeline ==
    \/ Deliver({1}, PipelineMessages)
    \/ GatewayReturns({NoPayload, FoundBooking})
    \/ ContactReturns({Null})
    \/ GenerateReturns({Null, Str("ai-reply")})
    \/ SendSucceeds
    \/ SendFails
    \/ Forget
    \/ Tick
    \/ UpdateAutoReplyConfig(PipelineUpdates)
    \/ SetKeyword({"Xyz"}, {Null})
    \/ RemoveKeyword({"Ticket"})

SpecPipeline == InitPipeline /\ [][NextPipeline]_vars

\* The rule table: messages that probe the exact and the prefix match, while
\* rules are set and removed. No generator is configured.
KeywordMessages ==
    {Message(Chat1, FALSE, body) :
        body \in {"bookkeeper", "Book now", "book,now", "2 pm please", "2 pm", BodyXyz}}

InitKeywords == InitOf({"keyword", "ai"}, {TRUE}, {FALSE})

NextKeywords ==
    \/ Deliver({1}, KeywordMessages)
    \/ SendSucceeds
    \/ SendFails
    \/ Forget
    \/ Tick
    \/ SetKeyword({"2 PM", "Book"}, {Str("custom")})
    \/ SetKeyword({"2", "__proto__"}, {Null, Str("two")})
    \/ RemoveKeyword({"2 PM", "2"})

SpecKeywords == InitKeywords /\ [][NextKeywords]_vars

\* The configuration: partial updates, keyword requests and a caller that
\* holds the object of getAutoReplyConfig, while a message is handled.
ConfigPartials ==
    { Partial(BoolField(FALSE), StrField("new-default"), NumField(EnvCooldown + 1),
              NoKeywords, BoolField(FALSE)),
      Partial(StrField("no"), NumField(5), StrField("2"),
              [type |-> "string", entries |-> <<>>], StrField("no")),
      Partial(Absent, Absent, Absent,
              KeywordsObject(<<[key |-> "hi", value |-> Null]>>), Absent),
      Partial(Absent, Absent, Absent, KeywordsArray(<<Str("custom")>>), Absent) }

InitConfig == InitOf({"keyword", "ai", "menu"}, {TRUE}, {FALSE})

NextConfig ==
    \/ Deliver({1}, {Message(Chat1, FALSE, "hi")})
    \/ SendSucceeds
    \/ UpdateAutoReplyConfig(ConfigPartials)
    \/ SetKeyword({"Hi"}, {Null})
    \/ RemoveKeyword({"0"})
    \/ GetAutoReplyConfig
    \/ MutateSnapshot({"hi"}, {Str("custom")})

SpecConfig == InitConfig /\ [][NextConfig]_vars

\* Failures: lookups that fail, sends that fail and a rule table that has
\* lost its prototype, under two handlings that may overlap. No generator
\* is configured.
FailureMessages ==
    {Message(Chat1, FALSE, body) : body \in {BodyTicket, BodyBooking, BodyThanks}}

InitFailures == InitOf({"keyword", "ai", "menu"}, {TRUE}, {FALSE})

NextFailures ==
    \/ Deliver(Slots, FailureMessages)
    \/ GatewayReturns({NoPayload, Unsuccessful, Malformed})
    \/ SendSucceeds
    \/ SendFails
    \/ SetKeyword({"__proto__"}, {Null})

SpecFailures == InitFailures /\ [][NextFailures]_vars

\* The menu engine: one handling at a time and, beside it, calls of testReply
\* with the same texts and the same gateway outcomes.
MenuMessages ==
    {Message(Chat1, FALSE, body) :
        body \in {"hi", " 1 ", "2", "3", "4", "5", "booking",
                  "seats available tomorrow", "timing call", "book help", "help",
                  " OK ", "tq", "thanks", "No thanks", "xyz"}}

\* { success: true, available: 2 }
SeatsLeft == Payload(TRUE, TRUE, TRUE, 2, TRUE)

MenuPayloads == {NoPayload, Unsuccessful, Malformed, FoundBooking, SeatsLeft}

InitMenu == InitOf({"menu"}, {TRUE}, {FALSE})

NextMenu ==
    \/ Deliver({1}, MenuMessages)
    \/ GatewayReturns(MenuPayloads)
    \/ SendSucceeds
    \/ SendFails
    \/ Forget
    \/ TestReply(MenuMessages)
    \/ TestLookupReturns(MenuPayloads)

SpecMenu == InitMenu /\ [][NextMenu]_vars

\* The HTTP interface, with and without a configured API key: requests for
\* the health check, for a path without a route and for the configuration,
\* with every combination of the three places a key is read from.
ConfiguredKey == Str("secret")

\* The method, the path and the body of the requests
Endpoints ==
    { <<"GET", "/api/health", "none">>, <<"GET", "/health", "none">>,
      <<"GET", "/api/auto-reply", "none">>, <<"GET", "/api/auto-reply", "malformed">>,
      <<"PUT", "/api/auto-reply", "json">>, <<"PUT", "/api/auto-reply", "malformed">> }

HttpRequests ==
    {Request(endpoint[1], endpoint[2], xApiKey, authorization, apiKeyQuery, endpoint[3]) :
        endpoint \in Endpoints,
        xApiKey \in {Undefined, Str(""), Str("secret"), Str("nope")},
        authorization \in {Undefined, Str("Bearer secret"), Str("Bearer nope")},
        apiKeyQuery \in {Undefined, Str("secret")}}

InitHttp == InitWith({"menu"}, {TRUE}, {FALSE}, {Null, ConfiguredKey})

NextHttp == HttpRequest(HttpRequests)

SpecHttp == InitHttp /\ [][NextHttp]_vars

\* The keys of the rule table: rules are set, merged and removed with
\* keywords as a caller may give them, in capitals and with white space
\* around them.
RuleUpdates ==
    {Partial(Absent, Absent, Absent,
             KeywordsObject(<<[key |-> "Hi", value |-> Str("custom")]>>), Absent)}

InitRules == InitOf({"keyword", "ai"}, {TRUE}, {FALSE})

NextRules ==
    \/ Deliver({1}, {Message(Chat1, FALSE, body) : body \in {" OK ", "Hi"}})
    \/ SendSucceeds
    \/ SendFails
    \/ Forget
    \/ SetKeyword({" OK ", "Hi"}, {Str("custom")})
    \/ RemoveKeyword({" OK ", "OK"})
    \/ UpdateAutoReplyConfig(RuleUpdates)

SpecRules == InitRules /\ [][NextRules]_vars

\* The gateway toggle: useDatabase is switched off and on by requests while
\* messages with a live-data intent arrive. No generator is configured.
ToggleUpdates ==
    {Partial(Absent, Absent, Absent, NoKeywords, BoolField(b)) : b \in {FALSE, TRUE}}

InitToggle == InitOf({"ai", "menu"}, {TRUE}, {FALSE})

NextToggle ==
    \/ Deliver({1}, {Message(Chat1, FALSE, body) : body \in {BodyBooking, BodyXyz}})
    \/ GatewayReturns({NoPayload, FoundBooking})
    \/ SendSucceeds
    \/ SendFails
    \/ Forget
    \/ Tick
    \/ UpdateAutoReplyConfig(ToggleUpdates)

SpecToggle == InitToggle /\ [][NextToggle]_vars

\* The eviction sweep: two chats are replied to while the clock advances and
\* requests set the cooldown to a longer and to a negative number (any
\* typeof 'number' is stored).
SweepUpdates ==
    {Partial(Absent, Absent, NumField(n), NoKeywords, Absent) :
        n \in {EnvCooldown + 1, 0 - EnvCooldown}}

SweepMessages == {Message(from, FALSE, BodyHello) : from \in {Chat1, Chat2}}

InitSweep == InitOf({"keyword"}, {TRUE}, {FALSE})

NextSweep ==
    \/ Deliver(Slots, SweepMessages)
    \/ SendSucceeds
    \/ Forget
    \/ Tick
    \/ UpdateAutoReplyConfig(SweepUpdates)

SpecSweep == InitSweep /\ [][NextSweep]_vars

\* The menu build with handlings of two chats side by side: the same texts
\* arrive before and after other messages were answered.
HistoryMessages ==
    {Message(from, FALSE, body) :
        from \in {Chat1, Chat2}, body \in {"hi", " 1 ", BodyBooking, BodyThanks}}

InitHistory == InitOf({"menu"}, {TRUE}, {FALSE})

NextHistory ==
    \/ Deliver(Slots, HistoryMessages)
    \/ GatewayReturns({NoPayload, FoundBooking})
    \/ SendSucceeds
    \/ SendFails
    \/ Forget

SpecHistory == InitHistory /\ [][NextHistory]_vars

\* Handlings side by side under fairness: the calls made for the handling in
\* slot LaterSlot return or fail in the end, the calls made for the other
\* handling may never return.
LiveMessages ==
    {Message(from, FALSE, BodyBooking) : from \in {Chat1, Chat2}}

InitLive == InitOf({"ai", "menu"}, {TRUE}, {TRUE})

\* The pending call of a handling returns or fails
CallReturns ==
    \/ GatewayReturns({NoPayload})
    \/ ContactReturns({Null})
    \/ GenerateReturns({Str("ai-reply")})
    \/ SendSucceeds
    \/ SendFails

\* The step is the return of the call the handling in slot m waits for
ReturnsTo(m) ==
    /\ InFlight(tasks[m])
    /\ CallReturns
    /\ tasks'[m].pc # tasks[m].pc
    /\ \A k \in Slots \ {m} : tasks'[k].pc = tasks[k].pc

LaterSlot == MaxInFlight

NextLive ==
    \/ Deliver(Slots, LiveMessages)
    \/ CallReturns

SpecLive == InitLive /\ [][NextLive]_vars /\ WF_vars(ReturnsTo(LaterSlot))

\* The live-data stage of the AI build for texts that include the triggers
\* of several intents, with lookups that give nothing, a payload the
\* formatter cannot render, a reported failure and a booking. No generator
\* is configured.
BodySeveral == "my seat timing"
BodySeatTime == "seat time"

OrderMessages ==
    {Message(Chat1, FALSE, body) : body \in {BodySeveral, BodySeatTime, BodyXyz}}

OrderPayloads == {NoPayload, Malformed, Unsuccessful, FoundBooking}

InitOrder == InitOf({"ai"}, {TRUE}, {FALSE})

NextOrder ==
    \/ Deliver({1}, OrderMessages)
    \/ GatewayReturns(OrderPayloads)
    \/ SendSucceeds
    \/ SendFails
    \/ Forget
    \/ Tick

SpecOrder == InitOrder /\ [][NextOrder]_vars

\* ------------------------------------------------------------------ properties

Senders == {SenderOf(Chat1), SenderOf(Chat2)}

Window == autoReplyConfig.cooldown * MsPerSecond

\* The lookups of the live-data stage that resolved for the handling
DbLookups(t) == SelectSeq(t.lookups, LAMBDA l : l.stage = "db")

\* The handling made no call to a collaborator and no send attempt
NoCalls(t) == t.nGateway = 0 /\ t.nContact = 0 /\ t.nAi = 0 /\ t.nSend = 0

\* C1 as stated: isOnCooldown(S) is true exactly when the table holds an entry
\* for S younger than the cooldown; a sender never marked is not on cooldown;
\* a sender marked at t0 is on cooldown exactly while now - t0 < cooldown.
C1_AsStated ==
    \A s \in Senders :
        /\ IsOnCooldown(s) = (s \in DOMAIN cooldownMap /\ now - cooldownMap[s] < Window)
        /\ s \notin DOMAIN lastReplied => ~IsOnCooldown(s)
        /\ s \in DOMAIN lastReplied =>
              IsOnCooldown(s) = (now - lastReplied[s].at < Window)

\* C1, amended: isOnCooldown(S) is true exactly when the table holds an entry
\* for S younger than the cooldown; a sender never marked is not on cooldown;
\* a sender marked at t0 is on cooldown exactly while now - t0 < cooldown as
\* long as the cooldown setting has not changed since the mark (an entry the
\* sweep dropped as expired does not come back when the cooldown is raised).
C1_IsOnCooldown ==
    \A s \in Senders :
        /\ IsOnCooldown(s) = (s \in DOMAIN cooldownMap /\ now - cooldownMap[s] < Window)
        /\ s \notin DOMAIN lastReplied => ~IsOnCooldown(s)
        /\ (s \in DOMAIN lastReplied /\ ~lastReplied[s].cooldownChanged) =>
              IsOnCooldown(s) = (now - lastReplied[s].at < Window)

\* One sender's window has run out under an unchanged cooldown while another
\* sender is on cooldown
C1_Witness ==
    \E s, r \in DOMAIN lastReplied :
        /\ ~lastReplied[s].cooldownChanged
        /\ now - lastReplied[s].at >= Window
        /\ ~IsOnCooldown(s)
        /\ IsOnCooldown(r)

\* C2 as stated: no successful auto-reply to a sender is delivered within the
\* cooldown window (setting unchanged) of an earlier successful auto-reply to
\* that sender, in any interleaving.
C2_AsStated == \A m \in Slots : ~tasks[m].inWindowAtSend

\* C2, amended: a successful auto-reply is delivered within the window of an
\* earlier one to the same sender only when its handling was already in
\* flight, past the cooldown check, when the earlier reply was delivered;
\* replies of handlings that do not overlap are a cooldown apart.
C2_Separated == \A m \in Slots : tasks[m].inWindowAtSend => tasks[m].overlapped

\* Two handlings of one sender overlapped and both replied within one window
C2_Witness ==
    \E m \in Slots :
        /\ tasks[m].inWindowAtSend
        /\ tasks[m].overlapped
        /\ tasks[m].sendResult = "ok"

\* C3: a message whose handling starts after a successful auto-reply to its
\* sender and within the cooldown (setting unchanged) is silenced: no send
\* attempt and no gateway, contact or AI call.
C3_SecondSilenced ==
    \A m \in Slots :
        tasks[m].inWindowAtStart => tasks[m].pc = "done" /\ NoCalls(tasks[m])

\* A message of an ordinary chat, auto-reply enabled, was stopped by the cooldown
C3_Witness ==
    \E m \in Slots :
        /\ tasks[m].inWindowAtStart
        /\ tasks[m].gate = "cooldown"
        /\ tasks[m].pc = "done"

\* C4: message.reply is invoked at most once per message; the step on which
\* the reply succeeds writes the sender's cooldown entry, the step on which it
\* fails leaves the cooldown table as it was and ends the handling, and no
\* other step changes the table.
C4_SendOnce ==
    [][ /\ \A m \in Slots :
              /\ tasks'[m].nSend <= 1
              /\ (tasks[m].sendResult = "none" /\ tasks'[m].sendResult = "ok") =>
                    /\ Sender(tasks[m]) \in DOMAIN cooldownMap'
                    /\ cooldownMap'[Sender(tasks[m])] = now
              /\ (tasks[m].sendResult = "none" /\ tasks'[m].sendResult = "failed") =>
                    /\ cooldownMap' = cooldownMap
                    /\ tasks'[m].pc = "done"
        /\ cooldownMap' # cooldownMap =>
              \E m \in Slots :
                  tasks[m].sendResult = "none" /\ tasks'[m].sendResult = "ok"
      ]_vars

\* A send failed and the sender has no cooldown entry
C4_Witness ==
    \E m \in Slots :
        /\ tasks[m].sendResult = "failed"
        /\ tasks[m].nSend = 1
        /\ Sender(tasks[m]) \notin DOMAIN cooldownMap

\* C5: in the AI build, a message whose trimmed, lower-cased text is the key
\* of a rule with the no-reply value ends in silence with no gateway, contact
\* or AI call, no send and no cooldown entry written.
C5_ExactSuppress ==
    \A m \in Slots :
        (build = "ai" /\ tasks[m].exactSuppressAtStart) =>
            /\ tasks[m].pc = "done"
            /\ NoCalls(tasks[m])
            /\ tasks[m].nCooldownWrite = 0

\* Such a message went past the gates with the AI service available
C5_Witness ==
    \E m \in Slots :
        /\ build = "ai"
        /\ aiAvailable
        /\ tasks[m].exactSuppressAtStart
        /\ tasks[m].gate = "passed"

\* The live-data lookup that decided: it gave a well-formed successful payload
Succeeded(lookup) ==
    lookup.data.data /\ lookup.data.success /\ lookup.data.wellFormed

C7_AsStated ==
    \A m \in Slots :
        (/\ build \in {"keyword", "ai"}
         /\ Decided(tasks[m])
         /\ tasks[m].gate = "passed"
         /\ tasks[m].resolution = Null) =>
            ~(tasks[m].decidedBy \in {"ai", "default"} /\ tasks[m].nSend > 0)

\* C7, amended: for a message that went past the gates and that the rule
\* table resolves to the no-reply value, the default message is never sent;
\* the handling ends in silence when the match is exact, and when the keyword
\* stage is reached, that is when neither the live-data stage nor the AI stage
\* produced a reply. A prefix match does not stop those stages, whose reply is
\* sent.
C7_Suppress ==
    \A m \in Slots :
        (/\ build \in {"keyword", "ai"}
         /\ Decided(tasks[m])
         /\ tasks[m].gate = "passed"
         /\ tasks[m].resolution = Null) =>
            /\ tasks[m].decidedBy # "default"
            /\ tasks[m].exactSuppressAtStart =>
                  tasks[m].pc = "done" /\ NoCalls(tasks[m])
            /\ tasks[m].decidedBy \notin {"live", "ai"} =>
                  tasks[m].pc = "done" /\ tasks[m].nSend = 0

\* A prefix match on a no-reply rule reached the keyword stage after the AI
\* stage gave nothing, and the handling ended in silence
C7_Witness ==
    \E m \in Slots :
        /\ build = "ai"
        /\ tasks[m].resolution = Null
        /\ ~tasks[m].exactSuppressAtStart
        /\ tasks[m].gate = "passed"
        /\ tasks[m].nAi = 1
        /\ tasks[m].decidedBy = "keyword"
        /\ tasks[m].pc = "done"

\* C8: a message sent by the account itself or coming from a group chat ends
\* in silence with no cooldown read or write, no gateway, contact or AI call
\* and no send, whatever the configuration and the text.
C8_Filtered ==
    \A m \in Slots :
        (/\ tasks[m].pc # "idle"
         /\ tasks[m].fromMe \/ Includes(Chars(tasks[m].from), AtGUs)) =>
            /\ tasks[m].pc = "done"
            /\ NoCalls(tasks[m])
            /\ tasks[m].nCooldownRead = 0
            /\ tasks[m].nCooldownWrite = 0

\* A group message was dropped while auto-reply was enabled
C8_Witness ==
    \E m \in Slots :
        /\ tasks[m].pc = "done"
        /\ ~tasks[m].fromMe
        /\ Includes(Chars(tasks[m].from), AtGUs)
        /\ tasks[m].enabledAtStart
        /\ tasks[m].gate = "filtered"

\* C9: a message whose handling starts while auto-reply is disabled ends in
\* silence: no gateway, contact or AI call, no send, no cooldown entry written.
C9_Disabled ==
    \A m \in Slots :
        (tasks[m].pc # "idle" /\ ~tasks[m].enabledAtStart) =>
            /\ tasks[m].pc = "done"
            /\ NoCalls(tasks[m])
            /\ tasks[m].nCooldownWrite = 0

\* A message of an ordinary chat was dropped because auto-reply was disabled
C9_Witness ==
    \E m \in Slots :
        /\ tasks[m].pc = "done"
        /\ ~tasks[m].enabledAtStart
        /\ tasks[m].gate = "disabled"

\* C10: in the keyword and AI builds, when a message went past the gates, no
\* live-data or AI reply was produced and the rule table resolves the text to
\* no rule, the handler attempts to send exactly the default message, and
\* stays silent only when the default message is empty.
C10_Default ==
    \A m \in Slots :
        (/\ build \in {"keyword", "ai"}
         /\ Decided(tasks[m])
         /\ tasks[m].gate = "passed"
         /\ tasks[m].decidedBy \notin {"live", "ai"}
         /\ tasks[m].resolution = Undefined) =>
            /\ tasks[m].decidedBy = "default"
            /\ IF Truthy(tasks[m].defaultThen)
               THEN tasks[m].nSend = 1 /\ tasks[m].replyMessage = tasks[m].defaultThen
               ELSE tasks[m].nSend = 0 /\ tasks[m].pc = "done"

\* The default message is being sent for a text no rule matches, after the
\* AI stage gave nothing
C10_Witness ==
    \E m \in Slots :
        /\ build = "ai"
        /\ tasks[m].pc = "send"
        /\ tasks[m].decidedBy = "default"
        /\ tasks[m].nAi = 1
        /\ tasks[m].replyMessage = ConfigDefaultMessage

\* ------------------------------------------------------------ the rule table

\* The normalized text of the message of a handling
Normalized(t) == ToLowerCase(Trim(Chars(t.body)))

\* The key and one more character start the text, and that character is a
\* space or a comma
TokenPrefix(key, text) ==
    /\ Len(text) > Len(key)
    /\ SubSeq(text, 1, Len(key)) = key
    /\ text[Len(key) + 1] \in {" ", ","}

EqualsKey(table, text) == \E i \in 1..Len(table) : Chars(table[i].key) = text

\* The handling was decided by the rule table or the default message
TableDecided(t) ==
    /\ t.pc # "idle"
    /\ Decided(t)
    /\ t.gate = "passed"
    /\ t.decidedBy \in {"keyword", "default"}

\* The step decides the handling in slot m by the rule table or the default
\* message
DecidesByTable(m) == ~Decided(tasks[m]) /\ TableDecided(tasks[m])'

\* C11: when a step decides a handling whose text equals no rule key, the
\* resolution is the value of a rule whose key, followed by a space or a
\* comma, starts the text; it is no match if there is no such rule, whatever
\* keys the first characters of the text spell.
C11_TokenPrefix ==
    [][\A m \in Slots :
          (/\ DecidesByTable(m)
           /\ ~EqualsKey(autoReplyConfig.keywords, Normalized(tasks'[m]))) =>
              IF \E i \in 1..Len(autoReplyConfig.keywords) :
                     TokenPrefix(Chars(autoReplyConfig.keywords[i].key),
                                 Normalized(tasks'[m]))
              THEN \E i \in 1..Len(autoReplyConfig.keywords) :
                     /\ TokenPrefix(Chars(autoReplyConfig.keywords[i].key),
                                    Normalized(tasks'[m]))
                     /\ tasks'[m].resolution = autoReplyConfig.keywords[i].value
              ELSE /\ tasks'[m].resolution = Undefined
                   /\ tasks'[m].decidedBy = "default"]_vars

\* "bookkeeper" is answered with the default message while the table has the
\* key "book"
C11_Witness ==
    \E m \in Slots :
        /\ tasks[m].pc = "send"
        /\ tasks[m].body = "bookkeeper"
        /\ EqualsKey(autoReplyConfig.keywords, <<"b", "o", "o", "k">>)
        /\ tasks[m].resolution = Undefined
        /\ tasks[m].replyMessage = ConfigDefaultMessage

\* The value of the rule with this key
ValueOf(table, text) ==
    table[CHOOSE i \in 1..Len(table) : Chars(table[i].key) = text].value

\* The rules of the table, listed in the order of their insertion, that match
\* the text as a token prefix
TokenRules(table, text) ==
    SelectSeq(table, LAMBDA rule : TokenPrefix(Chars(rule.key), text))

\* C12: when a step decides a handling, the resolution is the value of the
\* rule whose key equals the normalized text when there is one; otherwise the
\* value of the first rule, in the order the rules were inserted, whose key
\* followed by a space or a comma starts the text; otherwise no match.
C12_AsStated ==
    [][\A m \in Slots :
          DecidesByTable(m) =>
              tasks'[m].resolution =
                  IF EqualsKey(autoReplyConfig.keywords, Normalized(tasks'[m]))
                  THEN ValueOf(autoReplyConfig.keywords, Normalized(tasks'[m]))
                  ELSE IF TokenRules(autoReplyConfig.keywords, Normalized(tasks'[m])) # <<>>
                  THEN Head(TokenRules(autoReplyConfig.keywords,
                                       Normalized(tasks'[m]))).value
                  ELSE Undefined]_vars

\* C13: a step that is an accepted setKeyword(k, r) leaves a table in which
\* the text equal to lower-cased k resolves to r; a step that is
\* removeKeyword(k) leaves a table in which that text equals no key, and it
\* changes nothing when the key was absent.
C13_AsStated ==
    [][\A k \in {"2 PM", "Book", "2", "__proto__"} :
         /\ \A r \in {Null, Str("custom"), Str("two")} :
               SetKeyword({k}, {r}) =>
                   /\ ~NotAFunction(autoReplyConfig')
                   /\ FindKeywordReply(ToLowerCase(Chars(k)))' = r
         /\ RemoveKeyword({k}) =>
               /\ ~EqualsKey(autoReplyConfig'.keywords, ToLowerCase(Chars(k)))
               /\ ~EqualsKey(autoReplyConfig.keywords, ToLowerCase(Chars(k))) =>
                      autoReplyConfig' = autoReplyConfig]_vars

\* ---------------------------------------------------------- the configuration

\* The configuration with every recognized field of the partial update that
\* has its type applied, a mapping of keywords merged into the rule table,
\* and every other field as it was
TypedFieldsApplied(cfg, newConfig) ==
    [cfg EXCEPT
        !.enabled = IF newConfig.enabled.type = "boolean"
                    THEN newConfig.enabled.bool ELSE @,
        !.defaultMessage = IF newConfig.defaultMessage.type = "string"
                           THEN Str(newConfig.defaultMessage.val) ELSE @,
        !.cooldown = IF newConfig.cooldown.type = "number"
                     THEN newConfig.cooldown.num ELSE @,
        !.keywords = IF newConfig.keywords.type = "object"
                     THEN SpreadInto(@, newConfig.keywords.entries) ELSE @]

\* C14: a step that is updateAutoReplyConfig(partial) leaves the configuration
\* with the recognized, correctly typed fields applied and every other field
\* unchanged, and returns a snapshot equal to that configuration.
C14_AsStated ==
    [][\A newConfig \in ConfigPartials :
          UpdateAutoReplyConfig({newConfig}) =>
              /\ autoReplyConfig' = TypedFieldsApplied(autoReplyConfig, newConfig)
              /\ UpdateReturns(autoReplyConfig, newConfig) = autoReplyConfig']_vars

\* C15: a step in which the caller writes into the snapshot it holds leaves
\* the configuration as it was, and a step that is setKeyword, removeKeyword
\* or updateAutoReplyConfig leaves a snapshot returned earlier as it was.
C15_AsStated ==
    [][/\ MutateSnapshot({"hi"}, {Str("custom")}) =>
              autoReplyConfig' = autoReplyConfig
       /\ (/\ snapshot.taken
           /\ \/ SetKeyword({"Hi"}, {Null})
              \/ RemoveKeyword({"0"})
              \/ UpdateAutoReplyConfig(ConfigPartials)) =>
              snapshot'.config = snapshot.config]_vars

\* C16: when getAutoReplyConfig is called again with no update, setKeyword or
\* removeKeyword since the call before, it returns a snapshot equal to the
\* one returned before, whatever messages were handled in between.
C16_Idempotent ==
    snapshot.repeat => snapshot.returned = snapshot.previous

\* The second of two such calls has returned, and between them a message was
\* delivered and answered
C16_Witness ==
    /\ snapshot.repeat
    /\ ~snapshot.deliveredBefore
    /\ snapshot.delivered
    /\ ~snapshot.changedSince
    /\ \E m \in Slots : tasks[m].sendResult = "ok"

\* ------------------------------------------------------------------ failures

FormatterNotice(api) ==
    CASE api = "booking" -> Str("booking-sorry")
      [] api = "availability" -> Str("availability-sorry")
      [] api = "schedule" -> Str("schedule-sorry")

RightNowNotice(api) ==
    CASE api = "booking" -> Str("booking-sorry-right-now")
      [] api = "availability" -> Str("availability-sorry-right-now")
      [] api = "schedule" -> Str("schedule-sorry-right-now")

FailureNotices ==
    {FormatterNotice(api) : api \in {"booking", "availability", "schedule"}}
    \cup {RightNowNotice(api) : api \in {"booking", "availability", "schedule"}}

\* The lookups of the live-data stage and of the menu that resolved
ReplyLookups(t) == SelectSeq(t.lookups, LAMBDA l : l.stage \in {"db", "menu"})

\* The payload reports a failure
ReportsFailure(lookup) == lookup.data.data /\ ~lookup.data.success

C19_AsAbsent ==
    \A m \in Slots :
        (/\ build = "ai"
         /\ tasks[m].pc # "idle"
         /\ Decided(tasks[m])
         /\ tasks[m].gate = "passed"
         /\ ~tasks[m].caught
         /\ ~tasks[m].exactSuppressAtStart
         /\ tasks[m].decidedBy \notin {"live", "ai"}) =>
            /\ tasks[m].decidedBy =
                  IF tasks[m].resolution = Undefined THEN "default" ELSE "keyword"
            /\ tasks[m].replyMessage =
                  IF tasks[m].resolution = Undefined
                  THEN tasks[m].defaultThen ELSE tasks[m].resolution
            /\ tasks[m].nSend = IF Truthy(tasks[m].replyMessage) THEN 1 ELSE 0

\* The generator was called and gave no text, and the reply of a rule is
\* being sent
C19_Witness ==
    \E m \in Slots :
        /\ build = "ai"
        /\ aiAvailable
        /\ tasks[m].nAi = 1
        /\ tasks[m].decidedBy = "keyword"
        /\ tasks[m].pc = "send"

\* The text is none of the acknowledgement words of the menu build
NotFiller(t) == Normalized(t) \notin SkipWords

\* The text is no menu option and no predicate of the menu build holds of it
NoPredicate(t) ==
    /\ Trim(Chars(t.body)) \notin MenuOptions
    /\ ~IsGreeting(Normalized(t))
    /\ ~IsBookingQuery(Normalized(t))
    /\ ~IsAvailabilityQuery(Normalized(t))
    /\ ~IsScheduleQuery(Normalized(t))
    /\ ~IsNewBookingQuery(Normalized(t))
    /\ ~IsContactQuery(Normalized(t))

\* C20: in the menu build, a message that passed the gates and is no
\* acknowledgement word gets one send attempt with a non-empty text, also
\* when its lookup failed; a text that matches no predicate gets the main
\* menu after an apology.
C20_AlwaysReplies ==
    \A m \in Slots :
        (/\ build = "menu"
         /\ tasks[m].pc # "idle"
         /\ Decided(tasks[m])
         /\ tasks[m].gate = "passed"
         /\ NotFiller(tasks[m])) =>
            /\ tasks[m].nSend = 1
            /\ Truthy(tasks[m].replyMessage)
            /\ NoPredicate(tasks[m]) =>
                  tasks[m].replyMessage = Str("apology-main-menu")

\* The lookup of a booking query gave nothing and the notice of the menu
\* build is being sent
C20_Witness ==
    \E m \in Slots :
        /\ build = "menu"
        /\ tasks[m].pc = "send"
        /\ tasks[m].body = BodyBooking
        /\ tasks[m].lookups # <<>>
        /\ ~tasks[m].lookups[1].data.data
        /\ tasks[m].replyMessage = Str("booking-sorry-right-now")

\* ----------------------------------------------------------- the menu engine

\* The gateway outcomes of a handling, as a call of testReply records them
LookupsOf(t) ==
    [i \in 1..Len(t.lookups) |-> [api |-> t.lookups[i].api, data |-> t.lookups[i].data]]

\* What the live handler decided: the text it handed to message.reply, or
\* null for silence
LiveDecision(t) == IF t.nSend = 0 THEN Null ELSE t.replyMessage

\* C21 as stated: for the same text and the same gateway outcome, testReply
\* returns the decision of the live menu handler for a message that passed
\* the gates.
C21_AsStated ==
    \A m \in Slots :
        (/\ build = "menu"
         /\ Decided(tasks[m])
         /\ tasks[m].gate = "passed"
         /\ probe.pc = "returned"
         /\ probe.messageText = tasks[m].body
         /\ probe.lookups = LookupsOf(tasks[m])) =>
            probe.reply = LiveDecision(tasks[m])

\* The thanks words of the acknowledgement list
ThanksWords ==
    { <<"t","h","a","n","k","s">>,
      <<"t","h","a","n","k"," ","y","o","u">>,
      <<"t","h","a","n","k","y","o","u">>,
      <<"t","q">>,
      <<"t","y">> }

\* C22 as stated: in the menu build, a message that is a word of the
\* acknowledgement list gets the courtesy reply when the word is a thanks
\* word, and otherwise no send and no write of the cooldown table.
C22_AsStated ==
    \A m \in Slots :
        (/\ build = "menu"
         /\ Decided(tasks[m])
         /\ tasks[m].gate = "passed"
         /\ Normalized(tasks[m]) \in SkipWords) =>
            IF Normalized(tasks[m]) \in ThanksWords
            THEN /\ tasks[m].nSend = 1
                 /\ tasks[m].replyMessage = Str("thank-you")
            ELSE /\ tasks[m].nSend = 0
                 /\ tasks[m].nCooldownWrite = 0

\* The apis of the lookups a handling made
ApisOf(t) == [i \in 1..Len(t.lookups) |-> t.lookups[i].api]

\* The handling made no lookup and its reply is this text
Canned(t, text) == t.nGateway = 0 /\ t.replyMessage = Str(text)

\* The handling made the lookup of this api and no other
LooksUp(t, api) == t.nGateway = 1 /\ ApisOf(t) = <<api>>

\* C23: in the menu build, a message that after trimming is one of "1".."5"
\* is decided by the option: 1 looks up the booking, 2 gives the booking
\* card, 3 looks up the availability, 4 the schedule, 5 gives the contact
\* card.
C23_MenuOption ==
    \A m \in Slots :
        (/\ build = "menu"
         /\ Decided(tasks[m])
         /\ tasks[m].gate = "passed"
         /\ Trim(Chars(tasks[m].body)) \in MenuOptions) =>
            /\ tasks[m].decidedBy = "option"
            /\ tasks[m].nSend = 1
            /\ Trim(Chars(tasks[m].body)) = <<"1">> => LooksUp(tasks[m], "booking")
            /\ Trim(Chars(tasks[m].body)) = <<"2">> => Canned(tasks[m], "book-ticket-card")
            /\ Trim(Chars(tasks[m].body)) = <<"3">> => LooksUp(tasks[m], "availability")
            /\ Trim(Chars(tasks[m].body)) = <<"4">> => LooksUp(tasks[m], "schedule")
            /\ Trim(Chars(tasks[m].body)) = <<"5">> => Canned(tasks[m], "contact-support-card")

\* The reply to option 1, given with surrounding white space, has been sent
\* after the lookup of the booking found nothing
C23_Witness ==
    \E m \in Slots :
        /\ build = "menu"
        /\ tasks[m].body = " 1 "
        /\ tasks[m].sendResult = "ok"
        /\ tasks[m].replyMessage = Str("booking-sorry-right-now")

\* The predicates of the menu build in the order of their priority
PredicateOrder ==
    <<"greeting", "booking", "availability", "schedule", "new-booking", "contact">>

Holds(predicate, text) ==
    CASE predicate = "greeting" -> IsGreeting(text)
      [] predicate = "booking" -> IsBookingQuery(text)
      [] predicate = "availability" -> IsAvailabilityQuery(text)
      [] predicate = "schedule" -> IsScheduleQuery(text)
      [] predicate = "new-booking" -> IsNewBookingQuery(text)
      [] predicate = "contact" -> IsContactQuery(text)

\* The predicates that hold of the text and no predicate before them does
Firsts(text) ==
    {PredicateOrder[i] : i \in {i \in 1..Len(PredicateOrder) :
        /\ Holds(PredicateOrder[i], text)
        /\ \A j \in 1..(i - 1) : ~Holds(PredicateOrder[j], text)}}

\* What the branch of a predicate does
BranchDone(t, predicate) ==
    CASE predicate = "greeting" -> Canned(t, "main-menu")
      [] predicate = "booking" -> LooksUp(t, "booking")
      [] predicate = "availability" -> LooksUp(t, "availability")
      [] predicate = "schedule" -> LooksUp(t, "schedule")
      [] predicate = "new-booking" -> Canned(t, "book-ticket-card")
      [] predicate = "contact" -> Canned(t, "contact-support-card")

\* C24: in the menu build, free text (no acknowledgement word, no option) is
\* decided by the first predicate of the order greeting, booking query,
\* availability query, schedule query, new-booking query, contact query that
\* holds of it: its reply or its lookup, and no other lookup.
C24_FirstPredicate ==
    \A m \in Slots :
        (/\ build = "menu"
         /\ Decided(tasks[m])
         /\ tasks[m].gate = "passed"
         /\ NotFiller(tasks[m])
         /\ Trim(Chars(tasks[m].body)) \notin MenuOptions) =>
            \A predicate \in Firsts(Normalized(tasks[m])) :
                /\ tasks[m].decidedBy = predicate
                /\ BranchDone(tasks[m], predicate)

\* A text that is a booking query and a new-booking query too has been
\* answered from the lookup of the booking
C24_Witness ==
    \E m \in Slots :
        /\ build = "menu"
        /\ tasks[m].sendResult = "ok"
        /\ tasks[m].body = "booking"
        /\ IsNewBookingQuery(Normalized(tasks[m]))
        /\ tasks[m].replyMessage = Str("booking-tickets")

\* The text suggests the booking link
SuggestsLink(text) == text = Str("availability-book-now")

\* The text states that the bus is fully booked, without a link
StatesFull(text) == text = Str("availability-full")

\* C25: a reply built from a successful availability payload suggests the
\* booking link exactly when the payload reports available > 0, and with
\* available = 0 it states that the bus is fully booked.
C25_BookingLink ==
    \A m \in Slots :
        (/\ build = "menu"
         /\ tasks[m].nSend = 1
         /\ ApisOf(tasks[m]) = <<"availability">>
         /\ tasks[m].lookups[1].data.data
         /\ tasks[m].lookups[1].data.success) =>
            /\ SuggestsLink(tasks[m].replyMessage) <=>
                  tasks[m].lookups[1].data.available > 0
            /\ tasks[m].lookups[1].data.available = 0 =>
                  StatesFull(tasks[m].replyMessage)

\* "seats available tomorrow" on a full bus has been answered
C25_Witness ==
    \E m \in Slots :
        /\ build = "menu"
        /\ tasks[m].body = "seats available tomorrow"
        /\ tasks[m].sendResult = "ok"
        /\ tasks[m].lookups[1].data.success
        /\ tasks[m].lookups[1].data.available = 0
        /\ StatesFull(tasks[m].replyMessage)

\* ------------------------------------------------------------ the HTTP interface

HealthCheck(req) == req.path \in {"/health", "/api/health"}

\* The keys the request carries, in the order the middleware reads them
KeysCarried(req) ==
    SelectSeq(<<req.xApiKey, Unbearer(req.authorization), req.apiKeyQuery>>, Truthy)

\* C26 as stated: with a key configured, a request other than the health
\* check that carries no key is answered 401 and one that carries only wrong
\* keys 403, and no route handler runs; with no key configured no request
\* is rejected for its key.
C26_AsStated ==
    http.served =>
        IF Truthy(http.apiKey)
        THEN ~HealthCheck(http.req) =>
                /\ KeysCarried(http.req) = <<>> =>
                      http.status = 401 /\ ~http.routed
                /\ (/\ KeysCarried(http.req) # <<>>
                    /\ \A i \in 1..Len(KeysCarried(http.req)) :
                          KeysCarried(http.req)[i] # http.apiKey) =>
                      http.status = 403 /\ ~http.routed
        ELSE http.status \notin {401, 403}

\* C26, amended: a request whose body does not parse is answered 500 before
\* the key is looked at. Of the others, with a key configured, a request
\* other than the health check is judged by the first key it carries (header,
\* then authorization, then query): 401 without one, 403 when it is not the
\* configured key, and in both cases no route handler runs; else it reaches
\* the routes. With no key configured every request that parses reaches the
\* routes.
C26_KeyChecked ==
    http.served =>
        IF http.req.body = "malformed"
        THEN http.status = 500 /\ ~http.routed
        ELSE IF Truthy(http.apiKey) /\ ~HealthCheck(http.req)
        THEN IF KeysCarried(http.req) = <<>>
             THEN http.status = 401 /\ ~http.routed
             ELSE IF KeysCarried(http.req)[1] # http.apiKey
             THEN http.status = 403 /\ ~http.routed
             ELSE http.auth = "next"
        ELSE http.auth = "next"

\* A request that carries a wrong key in the header and the configured key in
\* the query has been answered 403
C26_Witness ==
    /\ http.served
    /\ http.apiKey = ConfiguredKey
    /\ http.req.path = "/api/auto-reply"
    /\ http.req.body = "json"
    /\ http.req.xApiKey = Str("nope")
    /\ http.req.apiKeyQuery = ConfiguredKey
    /\ http.status = 403
    /\ ~http.routed

\* ------------------------------------------------------------- the AI pipeline

\* The lookups of the AI stage that resolved
AiLookups(t) == SelectSeq(t.lookups, LAMBDA l : l.stage = "ai")

\* The live-data stage yielded a reply: its last lookup gave a payload that
\* the formatter rendered
LiveReplied(t) ==
    /\ DbLookups(t) # <<>>
    /\ DbLookups(t)[Len(DbLookups(t))].data.data
    /\ ~Format(DbLookups(t)[Len(DbLookups(t))].api,
               DbLookups(t)[Len(DbLookups(t))].data).throws

\* C27: in the AI build, once the live-data stage has yielded a reply, the
\* handling makes no contact fetch, no context lookup and no call of the
\* generator, and the text it sends, once, is the live-data text.
C27_OneStage ==
    \A m \in Slots :
        (build = "ai" /\ LiveReplied(tasks[m])) =>
            /\ tasks[m].nContact = 0
            /\ tasks[m].nAi = 0
            /\ AiLookups(tasks[m]) = <<>>
            /\ tasks[m].decidedBy = "live"
            /\ tasks[m].nSend = 1
            /\ tasks[m].replyMessage =
                  Format(DbLookups(tasks[m])[Len(DbLookups(tasks[m]))].api,
                         DbLookups(tasks[m])[Len(DbLookups(tasks[m]))].data).text

\* With the generator available, the live-data text has been sent
C27_Witness ==
    \E m \in Slots :
        /\ build = "ai"
        /\ aiAvailable
        /\ autoReplyConfig.useAI
        /\ LiveReplied(tasks[m])
        /\ tasks[m].sendResult = "ok"
        /\ tasks[m].replyMessage = Str("booking-tickets")

\* C28 as stated: in the AI build, the keyword stage of a message sees the
\* rule table that its explicit no-reply check saw: when the keyword stage
\* decides, a no-reply rule with exactly the text of the message is in the
\* table only if it was there at the check, which then ended the handling.
C28_AsStated ==
    [][\A m \in Slots :
          (/\ build = "ai"
           /\ ~Decided(tasks[m])
           /\ Decided(tasks'[m])
           /\ tasks'[m].decidedBy = "keyword") =>
              (NoReplyRuleFor(Normalized(tasks'[m])) <=>
                  tasks'[m].exactSuppressAtStart)]_vars

\* C29 as stated: every key of the rule table is lower-cased and trimmed.
C29_AsStated ==
    \A i \in 1..Len(autoReplyConfig.keywords) :
        Chars(autoReplyConfig.keywords[i].key) =
            ToLowerCase(Trim(Chars(autoReplyConfig.keywords[i].key)))

\* The key of the live data a context lookup fills
ContextKey(api) ==
    CASE api = "booking" -> "customerBookings"
      [] api = "availability" -> "todayAvailability"
      [] api = "schedule" -> "schedule"

\* The handling has entered the AI stage and is past its lookups
ContextGathered(t) ==
    /\ t.nContact = 1
    /\ t.pc \notin {"ai_contact", "ai_booking", "ai_availability", "ai_schedule"}

\* C30: in the AI build, a handling that entered the AI stage makes the three
\* context lookups whatever the contact fetch and the lookups before gave,
\* and calls the generator once, with the live data of exactly the lookups
\* that gave a payload reporting success (none of them: no live data).
C30_Independent ==
    \A m \in Slots :
        (build = "ai" /\ ContextGathered(tasks[m])) =>
            /\ tasks[m].nAi = 1
            /\ ApisOf([lookups |-> AiLookups(tasks[m])]) =
                  <<"booking", "availability", "schedule">>
            /\ tasks[m].liveData =
                  {ContextKey(AiLookups(tasks[m])[i].api) :
                      i \in {i \in 1..Len(AiLookups(tasks[m])) :
                                /\ AiLookups(tasks[m])[i].data.data
                                /\ AiLookups(tasks[m])[i].data.success}}

\* The generator has been called with the availability alone: the contact
\* gave no name, the lookups of the booking and of the schedule failed
C30_Witness ==
    \E m \in Slots :
        /\ build = "ai"
        /\ tasks[m].pc = "ai_generate"
        /\ tasks[m].senderName = Null
        /\ tasks[m].nAi = 1
        /\ tasks[m].liveData = {"todayAvailability"}

\* ---------------------------------------------------------------- the toggle

\* The handling waits for a lookup that the intent of its text started
IntentLookup(t) ==
    t.pc \in {"db_booking", "db_availability", "db_schedule",
              "menu_booking", "menu_availability", "menu_schedule"}

\* C31 as stated: while useDatabase is off, no handling starts a lookup for
\* the intent of its text.
C31_AsStated ==
    [][\A m \in Slots :
          (/\ ~autoReplyConfig.useDatabase
           /\ tasks'[m].nGateway > tasks[m].nGateway) =>
              ~IntentLookup(tasks'[m])]_vars

\* ------------------------------------------------------------------ the sweep

\* The step is the setCooldown call of handling m
Wrote(m) == tasks'[m].nCooldownWrite > tasks[m].nCooldownWrite

\* The timestamp of k once setCooldown has inserted the entry of sender s
Stamp(k, s) == IF k = s THEN now ELSE cooldownMap[k]

\* The senders with an entry once the entry of s is inserted
Inserted(s) == (DOMAIN cooldownMap) \cup {s}

\* The entries a setCooldown(s) step has removed
Removed(s) == {k \in Inserted(s) : k \notin DOMAIN cooldownMap'}

\* The timestamp is older than the window that ends now
Expired(stamp) == stamp < now - autoReplyConfig.cooldown * MsPerSecond

\* C32: setCooldown sweeps only when the table holds more than the threshold
\* of entries after its insert; the sweep removes the entries older than the
\* cooldown window and no other, and every entry kept has its timestamp; a
\* call that does not cross the threshold removes nothing.
C32_Sweep ==
    [][\A m \in Slots : Wrote(m) =>
          LET s == Sender(tasks[m])
          IN /\ Cardinality(Inserted(s)) <= SweepThreshold => Removed(s) = {}
             /\ Cardinality(Inserted(s)) > SweepThreshold =>
                   Removed(s) = {k \in Inserted(s) : Expired(Stamp(k, s))}
             /\ \A k \in DOMAIN cooldownMap' : cooldownMap'[k] = Stamp(k, s)]_vars

\* A sweep has removed the entry of a sender that was replied to, and has
\* kept another
C32_Witness ==
    \E s \in DOMAIN lastReplied, k \in DOMAIN cooldownMap :
        /\ s \notin DOMAIN cooldownMap
        /\ autoReplyConfig.cooldown > 0

\* The answer isOnCooldown would give for k with the entry of s inserted and
\* nothing removed
OnCooldownUnswept(k, s) ==
    /\ k \in Inserted(s)
    /\ Stamp(k, s) # 0
    /\ now - Stamp(k, s) < autoReplyConfig.cooldown * MsPerSecond

\* The sweep leaves the answers of isOnCooldown as the insert made them
AnswersKept(s) ==
    \A k \in Inserted(s) \cup {Chat1, Chat2, GroupChat} :
        IsOnCooldown(k)' = OnCooldownUnswept(k, s)

\* C37 as stated: a sweep changes no answer of isOnCooldown, and the entry
\* just written is never removed.
C37_AsStated ==
    [][\A m \in Slots : Wrote(m) =>
          LET s == Sender(tasks[m])
          IN /\ AnswersKept(s)
             /\ s \in DOMAIN cooldownMap']_vars

\* C37: a sweep changes no answer of isOnCooldown (it removes no entry inside
\* the window), and while the cooldown is positive it keeps the entry just
\* written.
C37_SweepKeepsAnswers ==
    [][\A m \in Slots : Wrote(m) =>
          LET s == Sender(tasks[m])
          IN /\ AnswersKept(s)
             /\ autoReplyConfig.cooldown > 0 =>
                   /\ s \in DOMAIN cooldownMap'
                   /\ cooldownMap'[s] = now]_vars

\* A sweep has removed one sender's entry and kept an entry that is inside
\* the window
C37_Witness ==
    \E s \in DOMAIN lastReplied, k \in DOMAIN cooldownMap :
        /\ s \notin DOMAIN cooldownMap
        /\ IsOnCooldown(k)

\* ------------------------------------------------------------------ testReply

\* The step is one of testReply: its call or the return of its lookup
ProbeStep == probe' # probe

\* What the handler of a live message reads: the clock, the cooldown table,
\* the configuration and the availability of the generator
HandlerReads == <<now, cooldownMap, autoReplyConfig, aiAvailable>>

\* C33: a step of testReply sends nothing and touches no handling in flight,
\* and it leaves the cooldown table, the configuration and everything else a
\* later handling reads as they are.
C33_Pure ==
    [][ProbeStep =>
          /\ tasks' = tasks
          /\ lastReplied' = lastReplied
          /\ HandlerReads' = HandlerReads]_vars

\* testReply has returned the text of a lookup while a live handling, not yet
\* on cooldown, waits for its send
C33_Witness ==
    /\ probe.pc = "returned"
    /\ Len(probe.lookups) = 1
    /\ probe.reply # Null
    /\ tasks[1].pc = "send"
    /\ cooldownMap = [s \in {} |-> 0]

\* ------------------------------------------------------------- the menu engine

\* The handling passed the gates and its reply, or its silence, is chosen
ChoseReply(t) == t.gate = "passed" /\ Decided(t)

\* What the menu engine chose for the handling
Choice(t) == <<t.replyMessage, t.decidedBy, t.pc = "done" /\ t.nSend = 0>>

\* C34: in the menu build two handlings that passed the gates with the same
\* text and the same gateway results have the same reply, whatever was
\* handled before each of them.
C34_StateFree ==
    \A a, b \in Slots :
        (/\ ChoseReply(tasks[a])
         /\ ChoseReply(tasks[b])
         /\ tasks[a].body = tasks[b].body
         /\ tasks[a].lookups = tasks[b].lookups) =>
            Choice(tasks[a]) = Choice(tasks[b])

\* A greeting was answered with the menu, and after that reply the same
\* greeting of another chat is answered with the menu again
C34_Witness ==
    /\ tasks[1].pc = "done"
    /\ tasks[1].sendResult = "ok"
    /\ Sender(tasks[1]) \in DOMAIN cooldownMap
    /\ tasks[2].pc = "send"
    /\ Sender(tasks[2]) \notin DOMAIN cooldownMap
    /\ tasks[1].body = "hi"
    /\ tasks[2].body = "hi"
    /\ tasks[2].replyMessage = Str("main-menu")

\* ------------------------------------------------------------------- progress

\* C35: a handling whose own calls return or fail in the end comes to its
\* end, whether or not the calls of the handlings beside it ever return.
C35_Completes == InFlight(tasks[LaterSlot]) ~> (tasks[LaterSlot].pc = "done")

\* The later handling has made a lookup and its reply is sent while the
\* handling that started before it still waits for its own lookup
C35_Witness ==
    /\ tasks[LaterSlot].pc = "done"
    /\ tasks[LaterSlot].sendResult = "ok"
    /\ tasks[LaterSlot].nGateway > 0
    /\ tasks[1].nGateway = 1
    /\ InFlight(tasks[1])
    /\ tasks[1].lookups = <<>>

\* ------------------------------------------------------- disabling in flight

\* The step hands the reply of handling m to message.reply
HandsOver(m) == tasks'[m].nSend > tasks[m].nSend

\* C36 as stated: no reply is handed to the transport while auto-reply is
\* disabled, also not by a handling that was suspended at a call when the
\* update completed.
C36_AsStated ==
    [][\A m \in Slots : HandsOver(m) => autoReplyConfig.enabled]_vars

\* C36: the enabled flag is read once, at the gate: a reply is handed to the
\* transport only by a handling that found auto-reply enabled when it
\* started and went past the gates, whatever the flag is by then.
C36_GateReadOnce ==
    [][\A m \in Slots :
          HandsOver(m) => tasks'[m].enabledAtStart /\ tasks'[m].gate = "passed"]_vars

\* A handling that made a call has its reply handed over after auto-reply
\* was disabled
C36_Witness ==
    \E m \in Slots :
        /\ tasks[m].pc = "send"
        /\ tasks[m].nGateway + tasks[m].nContact + tasks[m].nAi > 0
        /\ tasks[m].enabledAtStart
        /\ ~autoReplyConfig.enabled

\* ------------------------------------------------------ the frame of a handling

\* The step belongs to the handling of a message: its start, the return of
\* one of its calls, or the outcome of its send
HandlingStep == \E m \in Slots : tasks'[m] # tasks[m] /\ tasks'[m].pc # "idle"

\* The step is the successful send of handling m
Replied(m) == tasks[m].sendResult = "none" /\ tasks'[m].sendResult = "ok"

\* The step ends handling m without a send
EndsInSilence(m) ==
    tasks[m].pc # "done" /\ tasks'[m].pc = "done" /\ tasks'[m].nSend = 0

\* The table differs only by the entry of sender s, written now, and by
\* entries older than the window that are gone
OwnEntryWritten(s) ==
    /\ \A k \in DOMAIN cooldownMap' :
          \/ k = s /\ cooldownMap'[k] = now
          \/ k # s /\ k \in DOMAIN cooldownMap /\ cooldownMap'[k] = cooldownMap[k]
    /\ \A k \in (DOMAIN cooldownMap) \ (DOMAIN cooldownMap') :
          k # s => cooldownMap[k] < now - autoReplyConfig.cooldown * MsPerSecond

\* C38: a step of a handling leaves the configuration, rule table included,
\* as it is; it changes the cooldown table only when it is the successful
\* send, and then only by the sender's own entry and by evicting expired
\* ones; a handling that ends in silence leaves the table unchanged.
C38_Frame ==
    [][HandlingStep =>
          /\ autoReplyConfig' = autoReplyConfig
          /\ cooldownMap' # cooldownMap =>
                \E m \in Slots : Replied(m) /\ OwnEntryWritten(Sender(tasks[m]))
          /\ \A m \in Slots : EndsInSilence(m) => cooldownMap' = cooldownMap]_vars

\* A handling ended at the cooldown gate, and the entry of its sender is
\* still the one the earlier reply wrote
C38_Witness ==
    \E m, k \in Slots :
        /\ tasks[m].gate = "cooldown"
        /\ tasks[m].pc = "done"
        /\ tasks[k].sendResult = "ok"
        /\ Sender(tasks[k]) = Sender(tasks[m])
        /\ Sender(tasks[m]) \in DOMAIN cooldownMap
        /\ cooldownMap[Sender(tasks[m])] < now

\* ------------------------------------------------------- the live-data stage

\* The intents in the order handleDatabaseQuery tests them
IntentOrder == <<"booking", "availability", "schedule">>

IntentTriggers == <<BookingTriggers, AvailabilityTriggers, ScheduleTriggers>>

IndexOf(api) == CHOOSE i \in 1..Len(IntentOrder) : IntentOrder[i] = api

\* The intents whose triggers the text of the handling includes
Matching(t) ==
    {i \in 1..Len(IntentOrder) :
        IncludesAny(ToLowerCase(MessageText(t)), IntentTriggers[i])}

\* The lookup gave a payload; the lookup gave a payload the formatter rendered
GavePayload(l) == l.data.data
Rendered(l) == l.data.data /\ ~Format(l.api, l.data).throws

\* The live-data stage of the handling is over
StageOver(t) ==
    t.gate = "passed" /\ t.pc \notin {"db_booking", "db_availability", "db_schedule"}

\* C39 as stated: the reply is the formatted result of the first lookup of
\* the live-data stage that returned a payload.
C39_AsStated ==
    \A m \in Slots :
        LET t == tasks[m]
            L == DbLookups(t)
            gave == {i \in 1..Len(L) : GavePayload(L[i])}
        IN (build = "ai" /\ StageOver(t) /\ gave # {}) =>
              LET first == CHOOSE i \in gave : \A j \in gave : i <= j
              IN /\ Rendered(L[first])
                 /\ t.replyMessage = Format(L[first].api, L[first].data).text

\* C39: the lookups of the live-data stage are those of the matching intents
\* in the order booking, availability, schedule, one per intent and none
\* skipped; the stage moves on after a lookup that gave nothing or a payload
\* the formatter threw on, and stops at the first payload that is rendered,
\* whose text is the reply; when none is rendered every matching intent was
\* tried.
C39_InOrder ==
    \A m \in Slots :
        LET t == tasks[m]
            L == DbLookups(t)
            tried == {IndexOf(L[i].api) : i \in 1..Len(L)}
        IN build = "ai" =>
              /\ Len(L) <= Len(IntentOrder)
              /\ \A i \in 1..Len(L) : IndexOf(L[i].api) \in Matching(t)
              /\ \A i \in 1..(Len(L) - 1) :
                    /\ IndexOf(L[i].api) < IndexOf(L[i + 1].api)
                    /\ ~Rendered(L[i])
              /\ \A i \in Matching(t) :
                    (\E j \in tried : i < j) => i \in tried
              /\ (StageOver(t) /\ L # <<>> /\ Rendered(L[Len(L)])) =>
                    /\ t.decidedBy = "live"
                    /\ t.replyMessage = Format(L[Len(L)].api, L[Len(L)].data).text
              /\ (StageOver(t) /\ \A i \in 1..Len(L) : ~Rendered(L[i])) =>
                    /\ tried = Matching(t)
                    /\ t.decidedBy # "live"

\* For a text of three intents the booking lookup gave a payload the
\* formatter threw on, the availability lookup gave nothing, and the reply is
\* the text of the schedule lookup
C39_Witness ==
    LET L == DbLookups(tasks[1])
    IN /\ tasks[1].body = BodySeveral
       /\ tasks[1].pc = "send"
       /\ Len(L) = 3
       /\ GavePayload(L[1])
       /\ ~Rendered(L[1])
       /\ ~GavePayload(L[2])
       /\ Rendered(L[3])
       /\ tasks[1].decidedBy = "live"

====
